---- MODULE Spec2Model ----
(***************************************************************************)
(* Checkpointed conversation state machine with time travel.               *)
(*                                                                         *)
(* Client State Controller: frontend/src/hooks/useChat.ts (useChat), the   *)
(* API client it calls (lib/api: streamChat, streamFork, truncateMessages, *)
(* fetchMessages, fetchThreadHistory) and the components that call it.     *)
(* Persistent Store, Checkpoint Engine and Conversation Orchestrator: the  *)
(* backend behind the API; its operations are modelled from sections 3, 4  *)
(* and 7 of the specification.                                             *)
(***************************************************************************)
EXTENDS Integers, Sequences, FiniteSets, TLC

(***************************************************************************)
(* Bounds of the model.                                                    *)
(***************************************************************************)
MaxThreads == 2      \* threads ever created
MaxContents == 2     \* distinct human message texts
MaxTokens == 1       \* token events of one stream
MaxLoads == 1        \* loadMessages fetches in flight at once
MaxCalls == 2        \* requests in flight at once
MaxRequests == 3     \* Spec: requests of a run
MaxNav == 3          \* Spec: thread and timeline gestures of a run
MaxFaults == 1       \* Spec: failures of the network or of generation
ServerRequests == 3  \* SpecServer: chat and fork requests of a run
ServerOps == 2       \* SpecServer: thread and truncate requests of a run
ServerFaults == 1    \* SpecServer: failures of generation or of the connection
EditRequests == 4    \* SpecEdit: sendMessage and editMessage calls of a run
EditFaults == 1      \* SpecEdit: failures of the network or of generation
EditNav == 1         \* SpecEdit: openings of the timeline
PreviewRequests == 3 \* SpecPreview: sendMessage and fork calls of a run
PreviewNav == 3      \* SpecPreview: timeline gestures of a run
PreviewFaults == 1   \* SpecPreview: failures of the network or of generation
MaxFrames == 3       \* SpecSse: frames the server writes to one response
StreamRequests == 2  \* SpecStream: sendMessage calls of a run
StreamFaults == 1    \* SpecStream: failures of the network or of generation
StreamTokens == 2    \* SpecStream: token events of one stream
RaceRequests == 3    \* SpecRace: sendMessage and editMessage calls of a run
CreateRequests == 2  \* SpecCreate: sendMessage calls of a run
CreateFaults == 1    \* SpecCreate: failures of the network or of generation
NotOkRequests == 3   \* SpecNotOk: sendMessage and fork calls of a run
NotOkNav == 2        \* SpecNotOk: timeline gestures and deletions of a run
GuardRequests == 3   \* SpecGuard: sendMessage and editMessage calls of a run
GuardNav == 2        \* SpecGuard: timeline gestures of a run
SwitchRequests == 3  \* SpecSwitch: sendMessage and fork calls of a run
SwitchNav == 3       \* SpecSwitch: thread and timeline gestures of a run
MaxSelect == 2       \* files of one selection in the file dialog
MaxUploads == 2      \* suspended uploadFilesAuto and removeFile calls at once
FileRequests == 1    \* SpecFiles: messages sent in a run
FileNav == 2         \* SpecFiles: selections and removals of files in a run
FileFaults == 1      \* SpecFiles: failures of an upload or of a deletion
LoadRequests == 1    \* SpecLoads: sendMessage calls of a run
LoadNav == 3         \* SpecLoads: thread gestures of a run
LoadsAtOnce == 2     \* SpecLoads: loadMessages fetches in flight at once
PollNav == 3         \* SpecPoll: file and thread gestures of a run
PollFaults == 1      \* SpecPoll: failures of an upload or of a deletion
UploadNav == 2       \* SpecUpload: selections of files in a run
UploadFaults == 1    \* SpecUpload: failures of createThread or of an upload

ContentPool == <<"a", "b", "c">>
Contents == {ContentPool[i] : i \in 1..MaxContents}

NULL == 0
ThreadIds == 1..MaxThreads
Slots == 1..MaxCalls

VARIABLES
    \* ---- Persistent Store / Checkpoint Engine (server) ----
    srvThreads,          \* ids of the threads that exist
    threadSeq,           \* threads ever created
    msgTable,            \* thread id -> Message table rows, in sequence order
    cpLog,               \* checkpoints, in creation order
    cpSeq,               \* checkpoints ever appended (checkpoint ids)
    \* ---- Client State Controller (useChat) ----
    messages,            \* display sequence
    isLoading,
    threads,
    currentThreadId,
    progressStatus,
    checkpoints,
    selectedCheckpoint,
    isHistoryLoading,
    showTimeline,
    \* ---- suspended asynchronous work ----
    calls,               \* slot -> suspended sendMessage/editMessage/forkFromCheckpoint
    loads,               \* loadMessages fetches in flight
    histFetch,           \* loadHistory fetch started by toggleTimeline
    beforePreview,       \* the live display a preview replaced, and when
    nreq,                \* calls made so far (ids of optimistic messages)
    nnav,                \* thread and timeline gestures so far
    nfault,              \* failures so far
    lim,                 \* what a run may spend: requests, gestures, failures, loads
    sse,                 \* one streamChat/streamFork generator and its response
    \* ---- InputArea ----
    selectedFiles,
    isUploading,
    pollingIntervals,    \* pollingIntervalsRef: the filenames being polled
    uploads              \* suspended uploadFilesAuto and removeFile calls

srvVars == <<srvThreads, threadSeq, msgTable, cpLog, cpSeq>>
uiVars == <<messages, isLoading, threads, currentThreadId, progressStatus,
            checkpoints, selectedCheckpoint, isHistoryLoading, showTimeline>>
counters == <<nreq, nnav, nfault>>
still == <<beforePreview, lim, sse>>
areaVars == <<selectedFiles, isUploading, pollingIntervals, uploads>>
fixed == <<beforePreview, lim, sse, selectedFiles, isUploading, pollingIntervals, uploads>>
vars == <<srvThreads, threadSeq, msgTable, cpLog, cpSeq,
          messages, isLoading, threads, currentThreadId, progressStatus,
          checkpoints, selectedCheckpoint, isHistoryLoading, showTimeline,
          calls, loads, histFetch, beforePreview, nreq, nnav, nfault, lim, sse,
          selectedFiles, isUploading, pollingIntervals, uploads>>

(***************************************************************************)
(* Generic helpers.                                                        *)
(***************************************************************************)
Last(s) == s[Len(s)]

\* Array.prototype.slice(0, n)
Slice0(s, n) == SubSeq(s, 1, IF n < Len(s) THEN n ELSE Len(s))

\* Array.prototype.map over a sequence
Map(s, F(_)) == [i \in 1..Len(s) |-> F(s[i])]

(***************************************************************************)
(* Data model (specification section 3; lib/api interfaces).               *)
(***************************************************************************)
\* one role/content pair of a checkpoint (CheckpointMessage)
Pair(role, content) == [role |-> role, content |-> content]

\* one row of the Message table (Message)
Row(id, role, content) == [id |-> id, role |-> role, content |-> content]

RowPair(r) == Pair(r.role, r.content)

\* the namespace is an opaque partition key; one namespace is used
DefaultNs == ""

NoCheckpoint ==
    [checkpoint_id |-> NULL, thread_id |-> NULL, checkpoint_ns |-> DefaultNs,
     parent_checkpoint_id |-> NULL, step |-> 0, messages |-> <<>>]

(***************************************************************************)
(* Checkpoint Engine (specification section 4.1).                          *)
(***************************************************************************)
CpIds(log) == {log[i].checkpoint_id : i \in 1..Len(log)}

\* get(checkpoint_id); NoCheckpoint stands for NotFoundError
get(log, id) ==
    IF id \in CpIds(log)
    THEN log[CHOOSE i \in 1..Len(log) : log[i].checkpoint_id = id]
    ELSE NoCheckpoint

\* resume_from(checkpoint_id): the message history visible at that checkpoint
resume_from(log, id) == get(log, id).messages

ThreadCpIdx(log, t) == {i \in 1..Len(log) : log[i].thread_id = t}

\* newest first: step descending, then creation time descending
Newer(log, i, j) ==
    \/ log[i].step > log[j].step
    \/ log[i].step = log[j].step /\ i > j

RECURSIVE OrderHistory(_, _)
OrderHistory(log, idx) ==
    IF idx = {} THEN <<>>
    ELSE LET m == CHOOSE i \in idx : \A j \in idx \ {i} : Newer(log, i, j)
         IN  <<log[m]>> \o OrderHistory(log, idx \ {m})

list_history(log, t) == OrderHistory(log, ThreadCpIdx(log, t))

\* the thread's latest checkpoint: the most recently created one
LatestCheckpoint(log, t) ==
    IF ThreadCpIdx(log, t) = {} THEN NoCheckpoint
    ELSE log[CHOOSE i \in ThreadCpIdx(log, t) : \A j \in ThreadCpIdx(log, t) : j <= i]

SameKey(c, t, ns, parent, step) ==
    /\ c.thread_id = t
    /\ c.checkpoint_ns = ns
    /\ c.parent_checkpoint_id = parent
    /\ c.step = step

\* append fails with ConflictError when the key holds a non-identical record
Conflict(log, t, ns, parent, step, content) ==
    \E i \in 1..Len(log) :
        SameKey(log[i], t, ns, parent, step) /\ log[i].messages # content

Identical(log, t, ns, parent, step, content) ==
    \E i \in 1..Len(log) :
        SameKey(log[i], t, ns, parent, step) /\ log[i].messages = content

\* variant: every append adds a record
AppendAlways(log, id, t, ns, parent, step, content) ==
    Append(log, [checkpoint_id |-> id, thread_id |-> t, checkpoint_ns |-> ns,
                 parent_checkpoint_id |-> parent, step |-> step,
                 messages |-> content])

\* append(thread_id, namespace, parent_checkpoint_id, step, content), id the
\* fresh checkpoint id: the log afterwards
append(log, id, t, ns, parent, step, content) ==
    IF Conflict(log, t, ns, parent, step, content)
       \/ Identical(log, t, ns, parent, step, content)
    THEN log
    ELSE Append(log, [checkpoint_id |-> id, thread_id |-> t, checkpoint_ns |-> ns,
                      parent_checkpoint_id |-> parent, step |-> step,
                      messages |-> content])

\* variant: steps advance by two
NextStepSkips(log, parent) ==
    IF parent = NULL THEN 0 ELSE get(log, parent).step + 2

\* step of a new checkpoint: parent.step + 1, or 0 for the root
NextStep(log, parent) ==
    IF parent = NULL THEN 0 ELSE get(log, parent).step + 1

(***************************************************************************)
(* Message table (specification sections 3 and 6).                         *)
(***************************************************************************)
\* variant: one row more is kept
TruncateKeepsOneMore(rows, keep_count) == Slice0(rows, keep_count + 1)

\* Truncate {thread_id, keep_count}: deletes the rows at index >= keep_count
truncate(rows, keep_count) == Slice0(rows, keep_count)

deleted_count(rows, keep_count) == Len(rows) - Len(truncate(rows, keep_count))

(***************************************************************************)
(* Display messages (ChatMessage) and the updates useChat applies to them. *)
(* A content is a sequence of text fragments, so that tokens concatenate.  *)
(***************************************************************************)
Id(kind, n, idx) == [kind |-> kind, n |-> n, idx |-> idx]

ChatMessage(id, role, content, isStreaming) ==
    [id |-> id, role |-> role, content |-> content, isStreaming |-> isStreaming]

\* loadMessages: one display message per row, id db-<row id>
FromRows(rows) ==
    [i \in 1..Len(rows) |->
        ChatMessage(Id("db", rows[i].id, 0), rows[i].role, rows[i].content, FALSE)]

\* variant: the last recorded message is not shown
FromCheckpointDropsLast(cp) ==
    [i \in 1..(Len(cp.messages) - 1) |->
        ChatMessage(Id("checkpoint", cp.checkpoint_id, i - 1),
                    IF cp.messages[i].role = "human" THEN "human" ELSE "ai",
                    cp.messages[i].content, FALSE)]

\* selectCheckpoint: one display message per recorded message
FromCheckpoint(cp) ==
    [i \in 1..Len(cp.messages) |->
        ChatMessage(Id("checkpoint", cp.checkpoint_id, i - 1),
                    IF cp.messages[i].role = "human" THEN "human" ELSE "ai",
                    cp.messages[i].content, FALSE)]

userMessage(n, content) == ChatMessage(Id("user", n, 0), "human", content, FALSE)

aiPlaceholder(n) == ChatMessage(Id("ai", n, 0), "ai", <<>>, TRUE)

aiMessageId(n) == Id("ai", n, 0)

\* the optimistic human message and the streaming placeholder are appended
AddOptimistic(msgs, n, content) ==
    (msgs \o <<userMessage(n, content)>>) \o <<aiPlaceholder(n)>>

\* variant: a token is put before the content
OnTokenPrepends(msgs, id, tokenContent) ==
    [i \in 1..Len(msgs) |->
        IF msgs[i].id = id
        THEN [msgs[i] EXCEPT !.content = tokenContent \o msgs[i].content]
        ELSE msgs[i]]

OnToken(msgs, id, tokenContent) ==
    [i \in 1..Len(msgs) |->
        IF msgs[i].id = id
        THEN [msgs[i] EXCEPT !.content = msgs[i].content \o tokenContent]
        ELSE msgs[i]]

OnMessage(msgs, id, messageContent) ==
    [i \in 1..Len(msgs) |->
        IF msgs[i].id = id
        THEN [msgs[i] EXCEPT !.content = messageContent, !.isStreaming = FALSE]
        ELSE msgs[i]]

OnDone(msgs, id) ==
    [i \in 1..Len(msgs) |->
        IF msgs[i].id = id THEN [msgs[i] EXCEPT !.isStreaming = FALSE] ELSE msgs[i]]

\* variant: the error text is put after the tokens already shown
OnErrorAppends(msgs, id, errorContent) ==
    [i \in 1..Len(msgs) |->
        IF msgs[i].id = id
        THEN [msgs[i] EXCEPT !.content = (msgs[i].content \o <<"Error: ">>) \o errorContent,
                             !.isStreaming = FALSE]
        ELSE msgs[i]]

OnError(msgs, id, errorContent) ==
    [i \in 1..Len(msgs) |->
        IF msgs[i].id = id
        THEN [msgs[i] EXCEPT !.content = <<"Error: ">> \o errorContent,
                             !.isStreaming = FALSE]
        ELSE msgs[i]]

\* the branch of the for-await loop that an event takes; the loops of
\* forkFromCheckpoint and of the edit fallback have no branch for "message"
OnEvent(kind, msgs, id, event) ==
    CASE event.type = "token" -> OnToken(msgs, id, event.content)
      [] event.type = "message" ->
            IF kind = "send" THEN OnMessage(msgs, id, event.content) ELSE msgs
      [] event.type = "done" -> OnDone(msgs, id)
      [] event.type = "error" -> OnError(msgs, id, event.content)
      [] OTHER -> msgs

FailureText == <<"Failed to get response. Please try again.">>

OnCatch(msgs, id) ==
    [i \in 1..Len(msgs) |->
        IF msgs[i].id = id
        THEN [msgs[i] EXCEPT !.content = FailureText, !.isStreaming = FALSE]
        ELSE msgs[i]]

\* role and content of the display messages
Shown(msgs) == [i \in 1..Len(msgs) |-> Pair(msgs[i].role, msgs[i].content)]

Pairs(rows) == [i \in 1..Len(rows) |-> Pair(rows[i].role, rows[i].content)]

(***************************************************************************)
(* Suspended handler invocations.  A sendMessage, editMessage or           *)
(* forkFromCheckpoint call runs to its next await in one step; pc names    *)
(* the await it is suspended at.                                           *)
(***************************************************************************)
Idle ==
    [pc |-> "idle", kind |-> "", thread |-> NULL, content |-> "", n |-> 0,
     fork |-> FALSE, checkpointId |-> NULL,
     index |-> 0, kept |-> <<>>, truncated |-> FALSE, needFetch |-> FALSE,
     base |-> NULL, reply |-> <<>>, attachments |-> <<>>]

NoProgress == ""

Tokens == {"x"}

\* the text of a full, non-incremental message event
FullMessage == <<"full">>

InFlight == {s \in Slots : calls[s].pc # "idle"}

HasFree == Cardinality(InFlight) < lim.calls

FreeSlot == CHOOSE s \in Slots : calls[s].pc = "idle" /\ \A r \in Slots : r < s => calls[r].pc # "idle"

\* history.find(cp => cp.messages.length === targetMessageCount)
FindCheckpoint(history, targetMessageCount) ==
    IF \E i \in 1..Len(history) : Len(history[i].messages) = targetMessageCount
    THEN history[CHOOSE i \in 1..Len(history) :
                    /\ Len(history[i].messages) = targetMessageCount
                    /\ \A j \in 1..(i - 1) : Len(history[j].messages) # targetMessageCount
                ].checkpoint_id
    ELSE NULL

\* ChatWindow: canEdit of the bubble at 0-based position index
canEdit(index) ==
    /\ index + 1 \in 1..Len(messages)
    /\ messages[index + 1].role = "human"
    /\ ~isLoading
    /\ selectedCheckpoint = NoCheckpoint

\* InputArea, the effect "clear selected files when thread changes": the
\* selection and the polling intervals are dropped; suspended uploads go on
FilesCleared ==
    /\ selectedFiles' = <<>>
    /\ isUploading' = FALSE
    /\ pollingIntervals' = {}

\* the effects that run after a render in which currentThreadId changed:
\* "load messages when thread changes" of useChat and the effect of
\* InputArea; shown is the display the handler left
ThreadChanged(new, shown) ==
    IF new = currentThreadId
    THEN /\ messages' = shown
         /\ loads' = loads
         /\ UNCHANGED <<selectedFiles, isUploading, pollingIntervals>>
    ELSE /\ FilesCleared
         /\ IF new = NULL
            THEN /\ messages' = <<>>
                 /\ loads' = loads
            ELSE /\ Len(loads) < lim.loads
                 /\ messages' = shown
                 /\ loads' = Append(loads, [thread |-> new, served |-> FALSE, rows |-> <<>>])

(***************************************************************************)
(* Budgets of a run.                                                       *)
(***************************************************************************)
\* a thread or timeline gesture of the user
Gesture == nnav < lim.nav /\ nnav' = nnav + 1

\* an awaited request answers (ok) or fails; it can answer only if possible
Outcome(ok, possible) ==
    /\ ok => possible
    /\ IF ~ok /\ possible
       THEN nfault < lim.fault /\ nfault' = nfault + 1
       ELSE nfault' = nfault

\* a failure of the network or of generation
Fault == nfault < lim.fault /\ nfault' = nfault + 1

NewLoad(t) == [thread |-> t, served |-> FALSE, rows |-> <<>>]

Budget(req, nav, fault, n) ==
    [req |-> req, nav |-> nav, fault |-> fault, calls |-> n, tokens |-> MaxTokens,
     loads |-> MaxLoads]

NoPreview == [quiet |-> FALSE, shown |-> <<>>, nreq |-> 0, nnav |-> 0, nfault |-> 0]

\* the state after construction, with the threads ts on the server and in the
\* sidebar and the thread t (or none) open
Constructed(ts, t, budget) ==
    /\ srvThreads = ts
    /\ threadSeq = Cardinality(ts)
    /\ msgTable = [i \in ThreadIds |-> <<>>]
    /\ cpLog = <<>>
    /\ cpSeq = 0
    /\ messages = <<>>
    /\ isLoading = FALSE
    /\ threads = ts
    /\ currentThreadId = t
    /\ progressStatus = NoProgress
    /\ checkpoints = <<>>
    /\ selectedCheckpoint = NoCheckpoint
    /\ isHistoryLoading = FALSE
    /\ showTimeline = FALSE
    /\ calls = [s \in Slots |-> Idle]
    /\ loads = <<>>
    /\ histFetch = NULL
    /\ beforePreview = NoPreview
    /\ nreq = 0
    /\ nnav = 0
    /\ nfault = 0
    /\ lim = budget
    /\ selectedFiles = <<>>
    /\ isUploading = FALSE
    /\ pollingIntervals = {}
    /\ uploads = <<>>

\* no generator is observed
NoStream == [pc |-> "none", frames |-> <<>>, wire |-> <<>>, buffer |-> <<>>, out |-> <<>>]

Start(ts, t, budget) == Constructed(ts, t, budget) /\ sse = NoStream

Init == Start({}, NULL, Budget(MaxRequests, MaxNav, MaxFaults, MaxCalls))

\* API consumers only; the controller stays as constructed
InitServer == Start({}, NULL, Budget(ServerRequests, ServerOps, ServerFaults, MaxCalls))

\* a new, empty thread is open (createNewThread and its load are over)
InitEdit == Start({1}, 1, Budget(EditRequests, EditNav, EditFaults, 1))

InitPreview == Start({1}, 1, Budget(PreviewRequests, PreviewNav, PreviewFaults, 1))

(***************************************************************************)
(* Thread handlers.                                                        *)
(***************************************************************************)
createNewThread ==
    /\ Gesture
    /\ threadSeq < MaxThreads
    /\ LET t == threadSeq + 1 IN
        /\ threadSeq' = t
        /\ srvThreads' = srvThreads \cup {t}
        /\ threads' = threads \cup {t}
        /\ currentThreadId' = t
        /\ ThreadChanged(t, <<>>)
    /\ UNCHANGED <<still, uploads, msgTable, cpLog, cpSeq, isLoading, progressStatus,
                   checkpoints, selectedCheckpoint, isHistoryLoading, showTimeline,
                   calls, histFetch, nreq, nfault>>

selectThread(threadId) ==
    /\ Gesture
    /\ threadId \in threads
    /\ threadId # currentThreadId
    /\ currentThreadId' = threadId
    /\ ThreadChanged(threadId, messages)
    /\ UNCHANGED <<still, uploads, srvVars, isLoading, threads, progressStatus, checkpoints,
                   selectedCheckpoint, isHistoryLoading, showTimeline, calls,
                   histFetch, nreq, nfault>>

\* the rows and checkpoints of a deleted thread go with it
DropThread(log, t) == SelectSeq(log, LAMBDA c : c.thread_id # t)

deleteThread(threadId) ==
    /\ Gesture
    /\ threadId \in threads
    /\ threadId \in srvThreads
    /\ srvThreads' = srvThreads \ {threadId}
    /\ msgTable' = [msgTable EXCEPT ![threadId] = <<>>]
    /\ cpLog' = DropThread(cpLog, threadId)
    /\ threads' = threads \ {threadId}
    /\ IF currentThreadId = threadId
       THEN /\ currentThreadId' = NULL
            /\ ThreadChanged(NULL, <<>>)
       ELSE /\ currentThreadId' = currentThreadId
            /\ ThreadChanged(currentThreadId, messages)
    /\ UNCHANGED <<still, uploads, threadSeq, cpSeq, isLoading, progressStatus, checkpoints,
                   selectedCheckpoint, isHistoryLoading, showTimeline, calls,
                   histFetch, nreq, nfault>>

(***************************************************************************)
(* loadMessages: the fetch is answered from the Message table, then the    *)
(* answer replaces the display.                                            *)
(***************************************************************************)
Remove(q, i) == SubSeq(q, 1, i - 1) \o SubSeq(q, i + 1, Len(q))

fetchMessages(i) ==
    /\ i \in 1..Len(loads)
    /\ ~loads[i].served
    /\ loads[i].thread \in srvThreads
    /\ loads' = [loads EXCEPT ![i] = [thread |-> loads[i].thread, served |-> TRUE,
                                      rows |-> msgTable[loads[i].thread]]]
    /\ UNCHANGED <<fixed, srvVars, uiVars, calls, histFetch, counters>>

loadMessagesDone(i) ==
    /\ i \in 1..Len(loads)
    /\ loads[i].served
    /\ messages' = FromRows(loads[i].rows)
    /\ loads' = Remove(loads, i)
    /\ UNCHANGED <<fixed, srvVars, isLoading, threads, currentThreadId, progressStatus,
                   checkpoints, selectedCheckpoint, isHistoryLoading, showTimeline,
                   calls, histFetch, counters>>

\* the fetch fails (the thread is gone, or the network): only logged
loadMessagesFailed(i) ==
    /\ i \in 1..Len(loads)
    /\ ~loads[i].served
    /\ Outcome(FALSE, loads[i].thread \in srvThreads)
    /\ loads' = Remove(loads, i)
    /\ UNCHANGED <<fixed, srvVars, uiVars, calls, histFetch, nreq, nnav>>

(***************************************************************************)
(* Time travel: timeline, checkpoint list, preview.                        *)
(***************************************************************************)
\* toggleTimeline; opening the timeline on a thread calls loadHistory
toggleTimeline ==
    /\ Gesture
    /\ showTimeline' = ~showTimeline
    /\ IF ~showTimeline /\ currentThreadId # NULL
       THEN /\ histFetch = NULL
            /\ histFetch' = currentThreadId
            /\ isHistoryLoading' = TRUE
       ELSE UNCHANGED <<histFetch, isHistoryLoading>>
    /\ UNCHANGED <<fixed, srvVars, messages, isLoading, threads, currentThreadId,
                   progressStatus, checkpoints, selectedCheckpoint, calls, loads,
                   nreq, nfault>>

\* loadHistory, after its fetch: the list replaces checkpoints; a failed
\* fetch is only logged
loadHistoryDone(ok) ==
    /\ histFetch # NULL
    /\ Outcome(ok, histFetch \in srvThreads)
    /\ checkpoints' = IF ok THEN list_history(cpLog, histFetch) ELSE checkpoints
    /\ isHistoryLoading' = FALSE
    /\ histFetch' = NULL
    /\ UNCHANGED <<fixed, srvVars, messages, isLoading, threads, currentThreadId,
                   progressStatus, selectedCheckpoint, showTimeline, calls, loads,
                   nreq, nnav>>

\* the display of a quiet live view, kept when a preview replaces it
Quiet == InFlight = {} /\ loads = <<>>

EnterPreview(checkpoint) ==
    IF checkpoint # NoCheckpoint /\ selectedCheckpoint = NoCheckpoint
    THEN [quiet |-> Quiet, shown |-> Shown(messages), nreq |-> nreq, nnav |-> nnav,
          nfault |-> nfault]
    ELSE beforePreview

\* selectCheckpoint(checkpoint)
selectCheckpoint(checkpoint) ==
    /\ Gesture
    /\ selectedCheckpoint' = checkpoint
    /\ beforePreview' = EnterPreview(checkpoint)
    /\ IF checkpoint # NoCheckpoint
       THEN /\ messages' = FromCheckpoint(checkpoint)
            /\ loads' = loads
       ELSE IF currentThreadId # NULL
            THEN /\ Len(loads) < lim.loads
                 /\ loads' = Append(loads, NewLoad(currentThreadId))
                 /\ messages' = messages
            ELSE UNCHANGED <<messages, loads>>
    /\ UNCHANGED <<lim, sse, areaVars, srvVars, isLoading, threads, currentThreadId, progressStatus,
                   checkpoints, isHistoryLoading, showTimeline, calls, histFetch,
                   nreq, nfault>>

\* TimelinePanel: a click on item i selects it, or deselects it when selected
TimelineSelect(i) ==
    /\ showTimeline /\ ~isHistoryLoading
    /\ i \in 1..Len(checkpoints)
    /\ selectCheckpoint(IF selectedCheckpoint.checkpoint_id = checkpoints[i].checkpoint_id
                        THEN NoCheckpoint ELSE checkpoints[i])

\* TimelinePanel: "Return to current state"
TimelineReturn ==
    /\ showTimeline
    /\ selectedCheckpoint # NoCheckpoint
    /\ selectCheckpoint(NoCheckpoint)

(***************************************************************************)
(* sendMessage, forkFromCheckpoint, editMessage up to the request.         *)
(***************************************************************************)
NewCall(kind, thread, content) ==
    [Idle EXCEPT !.kind = kind, !.thread = thread, !.content = content,
                 !.n = nreq + 1]

CanCall == nreq < lim.req /\ HasFree

\* setSelectedCheckpoint(null) of forkFromCheckpoint
ClearSelection(sel) == NoCheckpoint

\* sendMessage(content, attachments) up to its first await, as the onSend
\* of InputArea
onSend(content, attachments) ==
    /\ ~isLoading
    /\ CanCall
    /\ nreq' = nreq + 1
    /\ IF currentThreadId = NULL
       THEN /\ calls' = [calls EXCEPT ![FreeSlot] =
                            [NewCall("send", NULL, content) EXCEPT
                                !.pc = "createThread", !.attachments = attachments]]
            /\ UNCHANGED <<messages, isLoading>>
       ELSE /\ calls' = [calls EXCEPT ![FreeSlot] =
                            [NewCall("send", currentThreadId, content) EXCEPT
                                !.pc = "request", !.attachments = attachments]]
            /\ messages' = AddOptimistic(messages, nreq + 1, <<content>>)
            /\ isLoading' = TRUE
    /\ UNCHANGED <<still, srvVars, threads, currentThreadId, progressStatus, checkpoints,
                   selectedCheckpoint, isHistoryLoading, showTimeline, loads, histFetch,
                   nnav, nfault>>

\* sendMessage(content): a message sent with no file selected
sendMessage(content) == onSend(content, <<>>) /\ UNCHANGED areaVars

\* sendMessage after createThread answered: the thread becomes current and
\* the request is sent
sendMessageThreadCreated(s) ==
    /\ calls[s].pc = "createThread"
    /\ threadSeq < MaxThreads
    /\ LET t == threadSeq + 1 IN
        /\ threadSeq' = t
        /\ srvThreads' = srvThreads \cup {t}
        /\ threads' = threads \cup {t}
        /\ currentThreadId' = t
        /\ ThreadChanged(t, AddOptimistic(messages, calls[s].n, <<calls[s].content>>))
        /\ isLoading' = TRUE
        /\ calls' = [calls EXCEPT ![s].pc = "request", ![s].thread = t]
    /\ UNCHANGED <<still, uploads, msgTable, cpLog, cpSeq, progressStatus, checkpoints,
                   selectedCheckpoint, isHistoryLoading, showTimeline, histFetch,
                   counters>>

\* variant: after a failed createThread the message is shown as sent
sendMessageThreadFailedShows(s) ==
    /\ calls[s].pc = "createThread"
    /\ Fault
    /\ calls' = [calls EXCEPT ![s] = Idle]
    /\ messages' = AddOptimistic(messages, calls[s].n, <<calls[s].content>>)
    /\ isLoading' = TRUE
    /\ UNCHANGED <<fixed, srvVars, threads, currentThreadId, progressStatus, checkpoints,
                   selectedCheckpoint, isHistoryLoading, showTimeline, loads, histFetch,
                   nreq, nnav>>

\* sendMessage after createThread failed: it returns
sendMessageThreadFailed(s) ==
    /\ calls[s].pc = "createThread"
    /\ Fault
    /\ calls' = [calls EXCEPT ![s] = Idle]
    /\ UNCHANGED <<fixed, srvVars, uiVars, loads, histFetch, nreq, nnav>>

forkFromCheckpoint(content, checkpointId) ==
    /\ ~isLoading
    /\ currentThreadId # NULL
    /\ CanCall
    /\ nreq' = nreq + 1
    /\ selectedCheckpoint' = ClearSelection(selectedCheckpoint)
    /\ messages' = AddOptimistic(messages, nreq + 1, <<content>>)
    /\ isLoading' = TRUE
    /\ calls' = [calls EXCEPT ![FreeSlot] =
                    [NewCall("fork", currentThreadId, content) EXCEPT
                        !.pc = "request", !.fork = TRUE, !.checkpointId = checkpointId]]
    /\ UNCHANGED <<fixed, srvVars, threads, currentThreadId, progressStatus, checkpoints,
                   isHistoryLoading, showTimeline, loads, histFetch, nnav, nfault>>

\* TimelinePanel: the fork button of item i (not offered for the first item)
TimelineFork(i, content) ==
    /\ showTimeline /\ ~isHistoryLoading
    /\ i \in 2..Len(checkpoints)
    /\ forkFromCheckpoint(content, checkpoints[i].checkpoint_id)

\* editMessage up to its first await (truncateMessages)
editMessage(newContent, messageIndex) ==
    /\ ~isLoading
    /\ currentThreadId # NULL
    /\ CanCall
    /\ nreq' = nreq + 1
    /\ calls' = [calls EXCEPT ![FreeSlot] =
                    [NewCall("edit", currentThreadId, newContent) EXCEPT
                        !.pc = "truncate",
                        !.index = messageIndex,
                        !.kept = Slice0(messages, messageIndex),
                        !.needFetch = (Len(checkpoints) = 0),
                        !.checkpointId = FindCheckpoint(checkpoints, messageIndex)]]
    /\ UNCHANGED <<fixed, srvVars, uiVars, loads, histFetch, nnav, nfault>>

\* MessageBubble: save of an edited human message
BubbleEdit(index, newContent) ==
    /\ canEdit(index)
    /\ <<newContent>> # messages[index + 1].content
    /\ editMessage(newContent, index)

\* editMessage from the end of its awaits to the request: the fork path when
\* a checkpoint was found (target), the fallback path otherwise
EditDispatch(s, target, truncated) ==
    /\ messages' = AddOptimistic(calls[s].kept, calls[s].n, <<calls[s].content>>)
    /\ isLoading' = TRUE
    /\ selectedCheckpoint' =
          IF target # NULL THEN ClearSelection(selectedCheckpoint) ELSE selectedCheckpoint
    /\ calls' = [calls EXCEPT ![s].pc = "request",
                              ![s].fork = (target # NULL),
                              ![s].checkpointId = target,
                              ![s].truncated = truncated]

\* editMessage after truncateMessages returned (ok) or threw (caught)
editMessageTruncated(s, ok) ==
    /\ calls[s].pc = "truncate"
    /\ Outcome(ok, calls[s].thread \in srvThreads)
    /\ msgTable' = IF ok
                   THEN [msgTable EXCEPT ![calls[s].thread] =
                            truncate(msgTable[calls[s].thread], calls[s].index)]
                   ELSE msgTable
    /\ IF calls[s].needFetch
       THEN /\ calls' = [calls EXCEPT ![s].pc = "fetchHistory", ![s].truncated = ok]
            /\ UNCHANGED <<messages, isLoading, selectedCheckpoint>>
       ELSE EditDispatch(s, calls[s].checkpointId, ok)
    /\ UNCHANGED <<fixed, srvThreads, threadSeq, cpLog, cpSeq, threads, currentThreadId,
                   progressStatus, checkpoints, isHistoryLoading, showTimeline,
                   loads, histFetch, nreq, nnav>>

\* editMessage after fetchThreadHistory returned (ok) or threw (caught)
editMessageHistory(s, ok) ==
    /\ calls[s].pc = "fetchHistory"
    /\ Outcome(ok, calls[s].thread \in srvThreads)
    /\ LET history == IF ok THEN list_history(cpLog, calls[s].thread) ELSE <<>> IN
        /\ checkpoints' = IF ok THEN history ELSE checkpoints
        /\ EditDispatch(s, FindCheckpoint(history, calls[s].index), calls[s].truncated)
    /\ UNCHANGED <<fixed, srvVars, threads, currentThreadId, progressStatus, isHistoryLoading,
                   showTimeline, loads, histFetch, nreq, nnav>>

(***************************************************************************)
(* Conversation Orchestrator (specification section 4.2), one request.     *)
(***************************************************************************)
\* the request names an existing thread and, for a fork, one of its checkpoints
ValidRequest(c) ==
    /\ c.thread \in srvThreads
    /\ c.fork => /\ get(cpLog, c.checkpointId) # NoCheckpoint
                 /\ get(cpLog, c.checkpointId).thread_id = c.thread

\* variant: the base is the thread's latest checkpoint, fork or not
ResolveBaseLatest(log, c) == LatestCheckpoint(log, c.thread).checkpoint_id

\* 1. resolve base state: the fork point, or the thread's latest checkpoint
ResolveBase(log, c) ==
    IF c.fork THEN c.checkpointId ELSE LatestCheckpoint(log, c.thread).checkpoint_id

\* content of the checkpoint a turn commits: base state, human input, reply
CommitContent(log, base, human, reply) ==
    resume_from(log, base) \o <<Pair("human", human), Pair("ai", reply)>>

\* variant: a refused append does not fail the request
CanCommitAnyway(c) == c.thread \in srvThreads

CanCommit(c) ==
    /\ c.thread \in srvThreads
    /\ c.base # NULL => c.base \in CpIds(cpLog)
    /\ ~Conflict(cpLog, c.thread, DefaultNs, c.base, NextStep(cpLog, c.base),
                 CommitContent(cpLog, c.base, <<c.content>>, c.reply))

\* the human message of the turn is logged
LogHuman(rows, content) == Append(rows, Row(Len(rows) + 1, "human", content))

\* the AI message of the turn is logged
LogAI(rows, content) == Append(rows, Row(Len(rows) + 1, "ai", content))

\* the request reaches the server: the human message is logged
ServerAccept(s) ==
    /\ calls[s].pc = "request"
    /\ ValidRequest(calls[s])
    /\ msgTable' = [msgTable EXCEPT ![calls[s].thread] = LogHuman(@, <<calls[s].content>>)]
    /\ calls' = [calls EXCEPT ![s].pc = "stream", ![s].base = ResolveBase(cpLog, calls[s])]
    /\ UNCHANGED <<fixed, srvThreads, threadSeq, cpLog, cpSeq, uiVars, loads, histFetch, counters>>

\* 5. commit: one checkpoint under the base, the AI message logged
ServerCommit(s) ==
    /\ calls[s].pc = "stream"
    /\ calls[s].reply # <<>>
    /\ CanCommit(calls[s])
    /\ cpSeq' = cpSeq + 1
    /\ cpLog' = append(cpLog, cpSeq + 1, calls[s].thread, DefaultNs, calls[s].base,
                       NextStep(cpLog, calls[s].base),
                       CommitContent(cpLog, calls[s].base, <<calls[s].content>>, calls[s].reply))
    /\ msgTable' = [msgTable EXCEPT ![calls[s].thread] = LogAI(@, calls[s].reply)]
    /\ calls' = [calls EXCEPT ![s].pc = "committed"]
    /\ UNCHANGED <<fixed, srvThreads, threadSeq, uiVars, loads, histFetch, counters>>

(***************************************************************************)
(* The event stream, as the for-await loops of useChat consume it.         *)
(***************************************************************************)
\* variant: no call reloads the checkpoint list after its stream
AfterStreamSkipsHistory(c) == "refreshThreads"

\* where a call goes when its loop ends without an exception
AfterStream(c) == IF c.kind = "send" THEN "refreshThreads" ELSE "loadHistory"

\* the call is one of useChat, not a request of another API consumer
Mine(c) == c.kind # "api"

LoopEnds(s) ==
    /\ calls' = [calls EXCEPT ![s] = IF Mine(calls[s])
                                     THEN [calls[s] EXCEPT !.pc = AfterStream(calls[s])]
                                     ELSE Idle]
    /\ isHistoryLoading' = IF calls[s].kind \in {"fork", "edit"} THEN TRUE
                            ELSE isHistoryLoading

\* an error event ends the stream
ErrorEvent(s, errorContent) ==
    /\ messages' = OnEvent(calls[s].kind, messages, aiMessageId(calls[s].n),
                            [type |-> "error", content |-> errorContent])
    /\ progressStatus' = IF Mine(calls[s]) THEN NoProgress ELSE progressStatus
    /\ LoopEnds(s)
    /\ UNCHANGED <<fixed, srvVars, isLoading, threads, currentThreadId, checkpoints,
                   selectedCheckpoint, showTimeline, loads, histFetch, nreq, nnav>>

\* variant: a response that is not OK just ends the stream
StreamNotOkSilent(s) ==
    /\ calls[s].pc = "request"
    /\ ~ValidRequest(calls[s])
    /\ nfault' = nfault
    /\ LoopEnds(s)
    /\ UNCHANGED <<fixed, srvVars, messages, isLoading, threads, currentThreadId,
                   progressStatus, checkpoints, selectedCheckpoint, showTimeline, loads,
                   histFetch, nreq, nnav>>

\* response not OK: the generator yields one error event and returns
StreamNotOk(s) ==
    /\ calls[s].pc = "request"
    /\ ~ValidRequest(calls[s])
    /\ nfault' = nfault
    /\ ErrorEvent(s, <<IF calls[s].fork THEN "Failed to fork: "
                       ELSE "Failed to send message: ", "404">>)

StreamProgress(s) ==
    /\ calls[s].pc = "stream"
    /\ Mine(calls[s])
    /\ calls[s].reply = <<>>
    /\ progressStatus = NoProgress
    /\ progressStatus' = "Working"
    /\ UNCHANGED <<fixed, srvVars, messages, isLoading, threads, currentThreadId, checkpoints,
                   selectedCheckpoint, isHistoryLoading, showTimeline, calls, loads,
                   histFetch, counters>>

StreamToken(s, tok) ==
    /\ calls[s].pc = "stream"
    /\ Len(calls[s].reply) < lim.tokens
    /\ calls' = [calls EXCEPT ![s].reply = Append(@, tok)]
    /\ messages' = OnEvent(calls[s].kind, messages, aiMessageId(calls[s].n),
                            [type |-> "token", content |-> <<tok>>])
    /\ UNCHANGED <<fixed, srvVars, isLoading, threads, currentThreadId, progressStatus,
                   checkpoints, selectedCheckpoint, isHistoryLoading, showTimeline,
                   loads, histFetch, counters>>

\* a full, non-incremental message: only sendMessage handles the event
StreamMessage(s) ==
    /\ calls[s].pc = "stream"
    /\ calls[s].reply = <<>>
    /\ calls' = [calls EXCEPT ![s].reply = FullMessage]
    /\ messages' = OnEvent(calls[s].kind, messages, aiMessageId(calls[s].n),
                            [type |-> "message", content |-> FullMessage])
    /\ UNCHANGED <<fixed, srvVars, isLoading, threads, currentThreadId, progressStatus,
                   checkpoints, selectedCheckpoint, isHistoryLoading, showTimeline,
                   loads, histFetch, counters>>

StreamDone(s) ==
    /\ calls[s].pc = "committed"
    /\ messages' = OnEvent(calls[s].kind, messages, aiMessageId(calls[s].n),
                            [type |-> "done", content |-> <<>>])
    /\ progressStatus' = IF Mine(calls[s]) THEN NoProgress ELSE progressStatus
    /\ LoopEnds(s)
    /\ UNCHANGED <<fixed, srvVars, isLoading, threads, currentThreadId, checkpoints,
                   selectedCheckpoint, showTimeline, loads, histFetch, counters>>

\* 6. fail: generation fails; no checkpoint is committed and the stream
\* ends with an error event
StreamError(s) ==
    /\ calls[s].pc = "stream"
    /\ Fault
    /\ ErrorEvent(s, <<"generation failed">>)

\* the append is refused (ConflictError, or the thread is gone): fatal for
\* the request, which ends with an error event
StreamConflict(s) ==
    /\ calls[s].pc = "stream"
    /\ calls[s].reply # <<>>
    /\ ~CanCommit(calls[s])
    /\ nfault' = nfault
    /\ ErrorEvent(s, <<"conflict">>)

\* the stream closes without a terminal event: the loop just ends
StreamClosed(s) ==
    /\ calls[s].pc = "stream"
    /\ Fault
    /\ LoopEnds(s)
    /\ UNCHANGED <<fixed, srvVars, messages, isLoading, threads, currentThreadId,
                   progressStatus, checkpoints, selectedCheckpoint, showTimeline,
                   loads, histFetch, nreq, nnav>>

\* variant: the catch block is not followed by the finally block
StreamThrowsKeepsLoading(s) ==
    /\ calls[s].pc \in {"request", "stream", "committed"}
    /\ Fault
    /\ messages' = OnCatch(messages, aiMessageId(calls[s].n))
    /\ calls' = [calls EXCEPT ![s] = Idle]
    /\ UNCHANGED <<fixed, srvVars, isLoading, progressStatus, threads, currentThreadId,
                   checkpoints, selectedCheckpoint, isHistoryLoading, showTimeline, loads,
                   histFetch, nreq, nnav>>

\* the fetch or a read throws: catch, then finally; generation is abandoned
StreamThrows(s) ==
    /\ calls[s].pc \in {"request", "stream", "committed"}
    /\ Fault
    /\ messages' = OnCatch(messages, aiMessageId(calls[s].n))
    /\ isLoading' = IF Mine(calls[s]) THEN FALSE ELSE isLoading
    /\ progressStatus' = IF Mine(calls[s]) THEN NoProgress ELSE progressStatus
    /\ calls' = [calls EXCEPT ![s] = Idle]
    /\ UNCHANGED <<fixed, srvVars, threads, currentThreadId, checkpoints, selectedCheckpoint,
                   isHistoryLoading, showTimeline, loads, histFetch, nreq, nnav>>

\* await loadHistory() of forkFromCheckpoint and of the edit fallback
CallHistoryDone(s, ok) ==
    /\ calls[s].pc = "loadHistory"
    /\ Outcome(ok, calls[s].thread \in srvThreads)
    /\ checkpoints' = IF ok THEN list_history(cpLog, calls[s].thread) ELSE checkpoints
    /\ isHistoryLoading' = FALSE
    /\ calls' = [calls EXCEPT ![s].pc = "refreshThreads"]
    /\ UNCHANGED <<fixed, srvVars, messages, isLoading, threads, currentThreadId,
                   progressStatus, selectedCheckpoint, showTimeline, loads, histFetch,
                   nreq, nnav>>

\* await refreshThreads(), then the finally block
CallRefreshDone(s, ok) ==
    /\ calls[s].pc = "refreshThreads"
    /\ Outcome(ok, TRUE)
    /\ threads' = IF ok THEN srvThreads ELSE threads
    /\ isLoading' = FALSE
    /\ progressStatus' = NoProgress
    /\ calls' = [calls EXCEPT ![s] = Idle]
    /\ UNCHANGED <<fixed, srvVars, messages, currentThreadId, checkpoints, selectedCheckpoint,
                   isHistoryLoading, showTimeline, loads, histFetch, nreq, nnav>>

(***************************************************************************)
(* Requests of API consumers other than this controller (another tab, a    *)
(* script): the same endpoints, called in any order.                       *)
(***************************************************************************)
ApiCreateThread ==
    /\ Gesture
    /\ threadSeq < MaxThreads
    /\ threadSeq' = threadSeq + 1
    /\ srvThreads' = srvThreads \cup {threadSeq + 1}
    /\ UNCHANGED <<fixed, msgTable, cpLog, cpSeq, uiVars, calls, loads, histFetch,
                   nreq, nfault>>

ApiDeleteThread(t) ==
    /\ Gesture
    /\ t \in srvThreads
    /\ srvThreads' = srvThreads \ {t}
    /\ msgTable' = [msgTable EXCEPT ![t] = <<>>]
    /\ cpLog' = DropThread(cpLog, t)
    /\ UNCHANGED <<fixed, threadSeq, cpSeq, uiVars, calls, loads, histFetch,
                   nreq, nfault>>

ApiTruncate(t, keep_count) ==
    /\ Gesture
    /\ t \in srvThreads
    /\ msgTable[t] # <<>>
    /\ msgTable' = [msgTable EXCEPT ![t] = truncate(msgTable[t], keep_count)]
    /\ UNCHANGED <<fixed, srvThreads, threadSeq, cpLog, cpSeq, uiVars, calls, loads,
                   histFetch, nreq, nfault>>

ApiChat(t, content) ==
    /\ CanCall
    /\ t \in 1..threadSeq
    /\ nreq' = nreq + 1
    /\ calls' = [calls EXCEPT ![FreeSlot] =
                    [Idle EXCEPT !.pc = "request", !.kind = "api", !.thread = t,
                                 !.content = content]]
    /\ UNCHANGED <<fixed, srvVars, uiVars, loads, histFetch, nnav, nfault>>

ApiFork(t, content, checkpointId) ==
    /\ CanCall
    /\ t \in 1..threadSeq
    /\ checkpointId \in 1..cpSeq
    /\ nreq' = nreq + 1
    /\ calls' = [calls EXCEPT ![FreeSlot] =
                    [Idle EXCEPT !.pc = "request", !.kind = "api", !.thread = t,
                                 !.content = content, !.fork = TRUE,
                                 !.checkpointId = checkpointId]]
    /\ UNCHANGED <<fixed, srvVars, uiVars, loads, histFetch, nnav, nfault>>

(***************************************************************************)
(* InputArea: file selection, upload, processing poll, submit.  A file     *)
(* name is the sequence of its parts between dots, a size is in bytes.     *)
(* The progress percentages are not modelled.                              *)
(***************************************************************************)
ALLOWED_EXTENSIONS == {<<".", "pdf">>, <<".", "pptx">>}

MAX_FILE_SIZE == 500 * 1024 * 1024

File(name, size) == [name |-> name, size |-> size]

\* the files the user can pick in the dialog
FilePool ==
    {File(<<"a", "PDF">>, MAX_FILE_SIZE), File(<<"b", "pptx">>, MAX_FILE_SIZE + 1),
     File(<<"c", "txt">>, 1), File(<<"pdf">>, 1)}

\* String.prototype.toLowerCase on the parts that occur
toLowerCase(s) ==
    CASE s = "PDF" -> "pdf"
      [] s = "PPTX" -> "pptx"
      [] OTHER -> s

\* validateFile returns null
NoError == ""

\* no s3_key is stored
NoKey == ""

\* "." + file.name.split(".").pop()?.toLowerCase()
Ext(file) == <<".", toLowerCase(Last(file.name))>>

validateFile(file) ==
    IF Ext(file) \notin ALLOWED_EXTENSIONS THEN "Invalid file type"
    ELSE IF file.size > MAX_FILE_SIZE THEN "File too large"
    ELSE NoError

SelectedFile(file, status, error, s3_key) ==
    [file |-> file, status |-> status, error |-> error, s3_key |-> s3_key]

\* the entry handleFileSelect makes for a file
NewFile(file) ==
    SelectedFile(file, IF validateFile(file) # NoError THEN "error" ELSE "pending",
                 validateFile(file), NoKey)

Names(files) == {files[i].name : i \in 1..Len(files)}

\* the selections the file dialog can hand over
Selections ==
    {fs \in UNION {[1..n -> FilePool] : n \in 1..MaxSelect} :
        \A i, j \in 1..Len(fs) : i # j => fs[i] # fs[j]}

hasUnreadyFiles ==
    \E i \in 1..Len(selectedFiles) :
        selectedFiles[i].status \in {"pending", "uploading", "processing"}

\* uploadFilesAuto: pending files of the batch become uploading
MarkUploading(sel, names) ==
    [i \in 1..Len(sel) |->
        IF sel[i].status = "pending" /\ sel[i].file.name \in names
        THEN [sel[i] EXCEPT !.status = "uploading"] ELSE sel[i]]

\* a status and error given to every file in status from
Fail(sel, from, error) ==
    [i \in 1..Len(sel) |->
        IF sel[i].status = from
        THEN [sel[i] EXCEPT !.status = "error", !.error = error] ELSE sel[i]]

\* the key the store gives a file
Key(name) == <<"key">> \o name

\* uploadFilesAuto after the upload: failed lists the names the response
\* reports an error for; every other uploading file becomes processing
AfterUpload(sel, batch, failed) ==
    [i \in 1..Len(sel) |->
        IF sel[i].status # "uploading" THEN sel[i]
        ELSE IF sel[i].file.name \in failed
             THEN [sel[i] EXCEPT !.status = "error", !.error = "upload error"]
             ELSE [sel[i] EXCEPT !.status = "processing",
                                 !.s3_key = IF sel[i].file.name \in Names(batch)
                                            THEN Key(sel[i].file.name) ELSE NoKey]]

\* pollStatus: the file is processed
MarkReady(sel, filename) ==
    [i \in 1..Len(sel) |->
        IF sel[i].file.name = filename /\ sel[i].status = "processing"
        THEN [sel[i] EXCEPT !.status = "ready"] ELSE sel[i]]

\* prev.filter((_, i) => i !== index), index 0-based
DropIndex(sel, index) ==
    IF index + 1 \in 1..Len(sel) THEN Remove(sel, index + 1) ELSE sel

SetStatusAt(sel, index, status, error) ==
    [i \in 1..Len(sel) |->
        IF i = index + 1 THEN [sel[i] EXCEPT !.status = status, !.error = error]
        ELSE sel[i]]

MessageAttachment(f) == [filename |-> f.file.name, size |-> f.file.size, s3_key |-> f.s3_key]

Ready(sel) == SelectSeq(sel, LAMBDA f : f.status = "ready")

NotReady(sel) == SelectSeq(sel, LAMBDA f : f.status # "ready")

\* a suspended uploadFilesAuto or removeFile call; created: the call has
\* created its thread
Upload(pc, files, thread) ==
    [pc |-> pc, files |-> files, thread |-> thread, index |-> 0, name |-> <<>>,
     created |-> FALSE]

AreaUnchanged ==
    UNCHANGED <<still, srvVars, uiVars, calls, loads, histFetch, nreq>>

\* handleFileSelect, and uploadFilesAuto up to its first await
handleFileSelect(files) ==
    /\ Gesture
    /\ ~isLoading /\ ~isUploading
    /\ Len(uploads) < MaxUploads
    /\ LET validFiles == SelectSeq(files, LAMBDA f : validateFile(f) = NoError)
           added == selectedFiles \o Map(files, NewFile)
       IN  IF validFiles = <<>>
           THEN /\ selectedFiles' = added
                /\ UNCHANGED <<isUploading, uploads>>
           ELSE IF currentThreadId = NULL
           THEN /\ selectedFiles' = added
                /\ uploads' = Append(uploads, Upload("createThread", validFiles, NULL))
                /\ UNCHANGED isUploading
           ELSE /\ selectedFiles' = MarkUploading(added, Names(validFiles))
                /\ isUploading' = TRUE
                /\ uploads' = Append(uploads, Upload("upload", validFiles, currentThreadId))
    /\ UNCHANGED <<pollingIntervals, nfault>>
    /\ AreaUnchanged

\* uploadFilesAuto after createThread answered: onThreadCreated
\* (Home.handleThreadCreatedFromUpload) selects the thread and starts
\* refreshThreads, the files are marked uploading, and the effects of the
\* thread change run
uploadThreadCreated(u) ==
    /\ u \in 1..Len(uploads)
    /\ uploads[u].pc = "createThread"
    /\ threadSeq < MaxThreads
    /\ Len(uploads) < MaxUploads
    /\ LET t == threadSeq + 1 IN
        /\ threadSeq' = t
        /\ srvThreads' = srvThreads \cup {t}
        /\ currentThreadId' = t
        /\ ThreadChanged(t, messages)
        /\ uploads' = Append([uploads EXCEPT ![u].pc = "upload", ![u].thread = t,
                                              ![u].created = TRUE],
                             Upload("refreshThreads", <<>>, t))
    /\ UNCHANGED <<still, msgTable, cpLog, cpSeq, isLoading, threads, progressStatus,
                   checkpoints, selectedCheckpoint, isHistoryLoading, showTimeline,
                   calls, histFetch, counters>>

\* uploadFilesAuto after createThread failed
uploadThreadFailed(u) ==
    /\ u \in 1..Len(uploads)
    /\ uploads[u].pc = "createThread"
    /\ Fault
    /\ selectedFiles' = Fail(selectedFiles, "pending", "Failed to create thread")
    /\ uploads' = Remove(uploads, u)
    /\ UNCHANGED <<isUploading, pollingIntervals, nnav>>
    /\ AreaUnchanged

\* await refreshThreads() of Home.handleThreadCreatedFromUpload
uploadRefreshDone(u) ==
    /\ u \in 1..Len(uploads)
    /\ uploads[u].pc = "refreshThreads"
    /\ threads' = srvThreads
    /\ uploads' = Remove(uploads, u)
    /\ UNCHANGED <<still, srvVars, messages, isLoading, currentThreadId, progressStatus,
                   checkpoints, selectedCheckpoint, isHistoryLoading, showTimeline,
                   calls, loads, histFetch, counters, selectedFiles, isUploading,
                   pollingIntervals>>

\* uploadFilesAuto after uploadFiles answered; the response reports an
\* error for the files in failed
uploadSettled(u, failed) ==
    /\ u \in 1..Len(uploads)
    /\ uploads[u].pc = "upload"
    /\ failed \subseteq Names(uploads[u].files)
    /\ Cardinality(failed) <= 1
    /\ IF failed = {} THEN nfault' = nfault ELSE Fault
    /\ selectedFiles' = AfterUpload(selectedFiles, uploads[u].files, failed)
    /\ isUploading' = FALSE
    /\ uploads' = IF Names(uploads[u].files) \ failed = {}
                  THEN Remove(uploads, u)
                  ELSE [uploads EXCEPT ![u].pc = "timer",
                            ![u].files = SelectSeq(uploads[u].files,
                                                   LAMBDA f : f.name \notin failed)]
    /\ UNCHANGED <<pollingIntervals, nnav>>
    /\ AreaUnchanged

\* uploadFilesAuto when uploadFiles rejects: catch, then finally
uploadThrows(u) ==
    /\ u \in 1..Len(uploads)
    /\ uploads[u].pc = "upload"
    /\ Fault
    /\ selectedFiles' = Fail(selectedFiles, "uploading", "Upload failed")
    /\ isUploading' = FALSE
    /\ uploads' = Remove(uploads, u)
    /\ UNCHANGED <<pollingIntervals, nnav>>
    /\ AreaUnchanged

\* the timer of uploadFilesAuto: startProcessingPoll for every uploaded file
startProcessingPoll(u) ==
    /\ u \in 1..Len(uploads)
    /\ uploads[u].pc = "timer"
    /\ pollingIntervals' = pollingIntervals \cup Names(uploads[u].files)
    /\ uploads' = Remove(uploads, u)
    /\ UNCHANGED <<selectedFiles, isUploading, counters>>
    /\ UNCHANGED <<still, srvVars, uiVars, calls, loads, histFetch>>

\* pollStatus: the status request answers that the file is processed
pollStatus(filename) ==
    /\ filename \in pollingIntervals
    /\ selectedFiles' = MarkReady(selectedFiles, filename)
    /\ pollingIntervals' = pollingIntervals \ {filename}
    /\ UNCHANGED <<isUploading, uploads, counters>>
    /\ UNCHANGED <<still, srvVars, uiVars, calls, loads, histFetch>>

\* removeFile(index) up to its await
removeFile(index) ==
    /\ Gesture
    /\ index + 1 \in 1..Len(selectedFiles)
    /\ selectedFiles[index + 1].status \notin {"deleting", "uploading", "processing"}
    /\ pollingIntervals' = pollingIntervals \ {selectedFiles[index + 1].file.name}
    /\ IF selectedFiles[index + 1].status = "ready" /\ currentThreadId # NULL
       THEN /\ Len(uploads) < MaxUploads
            /\ selectedFiles' = SetStatusAt(selectedFiles, index, "deleting", "")
            /\ uploads' = Append(uploads,
                              [Upload("delete", <<>>, currentThreadId) EXCEPT
                                  !.index = index,
                                  !.name = selectedFiles[index + 1].file.name])
       ELSE /\ selectedFiles' = DropIndex(selectedFiles, index)
            /\ uploads' = uploads
    /\ UNCHANGED <<isUploading, nfault>>
    /\ AreaUnchanged

\* removeFile after deleteFile answered (ok) or threw
removeFileDone(u, ok) ==
    /\ u \in 1..Len(uploads)
    /\ uploads[u].pc = "delete"
    /\ Outcome(ok, TRUE)
    /\ selectedFiles' = IF ok THEN DropIndex(selectedFiles, uploads[u].index)
                        ELSE SetStatusAt(selectedFiles, uploads[u].index, "error",
                                         "Failed to delete")
    /\ uploads' = Remove(uploads, u)
    /\ UNCHANGED <<isUploading, pollingIntervals, nnav>>
    /\ AreaUnchanged

\* variant: the message is sent whatever the statuses of the files
handleSubmitAnyStatus(input) ==
    /\ onSend(input, Map(Ready(selectedFiles), MessageAttachment))
    /\ selectedFiles' = NotReady(selectedFiles)
    /\ pollingIntervals' = pollingIntervals \ Names(Map(Ready(selectedFiles), LAMBDA f : f.file))
    /\ UNCHANGED <<isUploading, uploads>>

\* handleSubmit with the text input: the ready files are the attachments
handleSubmit(input) ==
    /\ ~hasUnreadyFiles
    /\ onSend(input, Map(Ready(selectedFiles), MessageAttachment))
    /\ selectedFiles' = NotReady(selectedFiles)
    /\ pollingIntervals' = pollingIntervals \ Names(Map(Ready(selectedFiles), LAMBDA f : f.file))
    /\ UNCHANGED <<isUploading, uploads>>

(***************************************************************************)
(* Specifications.                                                         *)
(***************************************************************************)
Threads ==
    \/ createNewThread
    \/ \E t \in ThreadIds : selectThread(t)
    \/ \E t \in ThreadIds : deleteThread(t)

Loads ==
    \/ \E i \in 1..Len(loads) : fetchMessages(i)
    \/ \E i \in 1..Len(loads) : loadMessagesDone(i)
    \/ \E i \in 1..Len(loads) : loadMessagesFailed(i)

Timeline ==
    \/ toggleTimeline
    \/ \E ok \in BOOLEAN : loadHistoryDone(ok)
    \/ \E i \in 1..Len(checkpoints) : TimelineSelect(i)
    \/ TimelineReturn

AutoCreate ==
    \/ \E s \in Slots : sendMessageThreadCreated(s)
    \/ \E s \in Slots : sendMessageThreadFailed(s)

Edits ==
    \/ \E i \in 0..(Len(messages) - 1), c \in Contents : BubbleEdit(i, c)
    \/ \E s \in Slots, ok \in BOOLEAN : editMessageTruncated(s, ok)
    \/ \E s \in Slots, ok \in BOOLEAN : editMessageHistory(s, ok)
    \/ \E s \in Slots, ok \in BOOLEAN : CallHistoryDone(s, ok)

\* one turn of the orchestrator and its event stream
Turn ==
    \/ \E s \in Slots : ServerAccept(s)
    \/ \E s \in Slots : ServerCommit(s)
    \/ \E s \in Slots, tok \in Tokens : StreamToken(s, tok)
    \/ \E s \in Slots : StreamDone(s)
    \/ \E s \in Slots : StreamError(s)
    \/ \E s \in Slots : StreamClosed(s)
    \/ \E s \in Slots : StreamThrows(s)

Api ==
    \/ ApiCreateThread
    \/ \E t \in ThreadIds : ApiDeleteThread(t)
    \/ \E t \in ThreadIds, k \in 0..(2 * ServerRequests) : ApiTruncate(t, k)
    \/ \E t \in ThreadIds, c \in Contents : ApiChat(t, c)
    \/ \E t \in ThreadIds, c \in Contents, id \in 1..cpSeq : ApiFork(t, c, id)

Next ==
    \/ Threads
    \/ Loads
    \/ Timeline
    \/ \E c \in Contents : sendMessage(c)
    \/ AutoCreate
    \/ \E i \in 1..Len(checkpoints), c \in Contents : TimelineFork(i, c)
    \/ Edits
    \/ Turn
    \/ \E s \in Slots : StreamNotOk(s)
    \/ \E s \in Slots : StreamProgress(s)
    \/ \E s \in Slots : StreamMessage(s)
    \/ \E s \in Slots : StreamConflict(s)
    \/ \E s \in Slots, ok \in BOOLEAN : CallRefreshDone(s, ok)
    \/ Api

Spec == Init /\ [][Next]_vars

\* the server under arbitrary API consumers
NextServer ==
    \/ Api
    \/ Turn
    \/ \E s \in Slots : StreamNotOk(s)
    \/ \E s \in Slots : StreamConflict(s)

SpecServer == InitServer /\ [][NextServer]_vars

\* one open thread: sends and edits, the timeline opened for its list
NextEdit ==
    \/ \E c \in Contents : sendMessage(c)
    \/ toggleTimeline
    \/ \E ok \in BOOLEAN : loadHistoryDone(ok)
    \/ Edits
    \/ Turn
    \/ \E s \in Slots : StreamConflict(s)
    \/ \E s \in Slots, ok \in BOOLEAN : CallRefreshDone(s, ok)

SpecEdit == InitEdit /\ [][NextEdit]_vars

\* the steps by which a suspended call goes on: the server handles the request
\* it was sent, the next event of the stream arrives, and an awaited
\* loadHistory or refreshThreads settles
Continue(s) ==
    \/ ServerAccept(s)
    \/ ServerCommit(s)
    \/ \E tok \in Tokens : StreamToken(s, tok)
    \/ StreamDone(s)
    \/ StreamConflict(s)
    \/ \E ok \in BOOLEAN : CallHistoryDone(s, ok)
    \/ \E ok \in BOOLEAN : CallRefreshDone(s, ok)

\* every request is answered and every stream goes on until it ends: a
\* promise that can settle does settle, and the event loop then resumes the
\* handler awaiting it
SpecEditLive == SpecEdit /\ \A s \in Slots : WF_vars(Continue(s))

\* one open thread: sends, the timeline and its forks
NextPreview ==
    \/ \E c \in Contents : sendMessage(c)
    \/ Loads
    \/ Timeline
    \/ \E i \in 1..Len(checkpoints), c \in Contents : TimelineFork(i, c)
    \/ Turn
    \/ \E s \in Slots : StreamMessage(s)
    \/ \E s \in Slots : StreamConflict(s)
    \/ \E s \in Slots, ok \in BOOLEAN : CallHistoryDone(s, ok)
    \/ \E s \in Slots, ok \in BOOLEAN : CallRefreshDone(s, ok)

SpecPreview == InitPreview /\ [][NextPreview]_vars

\* a new, empty thread is open; streams carry up to StreamTokens tokens
InitStream ==
    Start({1}, 1, [Budget(StreamRequests, 0, StreamFaults, 1)
                      EXCEPT !.tokens = StreamTokens])

\* one open thread: sends, streams of every event type
NextStream ==
    \/ \E c \in Contents : sendMessage(c)
    \/ Turn
    \/ \E s \in Slots : StreamToken(s, "y")
    \/ \E s \in Slots : StreamProgress(s)
    \/ \E s \in Slots : StreamMessage(s)
    \/ \E s \in Slots, ok \in BOOLEAN : CallRefreshDone(s, ok)

SpecStream == InitStream /\ [][NextStream]_vars

\* no thread is open; two calls may be suspended at once
InitRace == Start({}, NULL, Budget(RaceRequests, 0, 0, MaxCalls))

\* sends that create their thread, edits, and their streams without failures
NextRace ==
    \/ \E c \in Contents : sendMessage(c)
    \/ \E s \in Slots : sendMessageThreadCreated(s)
    \/ \E i \in 1..Len(loads) : fetchMessages(i)
    \/ \E i \in 1..Len(loads) : loadMessagesDone(i)
    \/ Edits
    \/ \E s \in Slots : ServerAccept(s)
    \/ \E s \in Slots : ServerCommit(s)
    \/ \E s \in Slots, tok \in Tokens : StreamToken(s, tok)
    \/ \E s \in Slots : StreamDone(s)
    \/ \E s \in Slots : StreamConflict(s)
    \/ \E s \in Slots, ok \in BOOLEAN : CallRefreshDone(s, ok)

SpecRace == InitRace /\ [][NextRace]_vars

\* no thread exists and none is open
InitCreate == Start({}, NULL, Budget(CreateRequests, 0, CreateFaults, MaxCalls))

\* sends that create their thread, the load the new thread triggers, and
\* their streams
NextCreate ==
    \/ \E c \in Contents : sendMessage(c)
    \/ AutoCreate
    \/ Loads
    \/ Turn
    \/ \E s \in Slots, ok \in BOOLEAN : CallRefreshDone(s, ok)

SpecCreate == InitCreate /\ [][NextCreate]_vars

\* a new, empty thread is open
InitGuard == Start({1}, 1, Budget(GuardRequests, GuardNav, 0, 1))

\* one open thread: sends and edits, the timeline and its previews
NextGuard ==
    \/ \E c \in Contents : sendMessage(c)
    \/ toggleTimeline
    \/ \E ok \in BOOLEAN : loadHistoryDone(ok)
    \/ \E i \in 1..Len(checkpoints) : TimelineSelect(i)
    \/ Edits
    \/ \E s \in Slots : ServerAccept(s)
    \/ \E s \in Slots : ServerCommit(s)
    \/ \E s \in Slots, tok \in Tokens : StreamToken(s, tok)
    \/ \E s \in Slots : StreamDone(s)
    \/ \E s \in Slots : StreamConflict(s)
    \/ \E s \in Slots, ok \in BOOLEAN : CallRefreshDone(s, ok)

SpecGuard == InitGuard /\ [][NextGuard]_vars

\* a new, empty thread is open
InitSwitch == Start({1}, 1, Budget(SwitchRequests, SwitchNav, 0, 1))

\* sends and forks while threads are created, selected and deleted
NextSwitch ==
    \/ \E c \in Contents : sendMessage(c)
    \/ Threads
    \/ Loads
    \/ toggleTimeline
    \/ \E ok \in BOOLEAN : loadHistoryDone(ok)
    \/ \E i \in 1..Len(checkpoints), c \in Contents : TimelineFork(i, c)
    \/ \E s \in Slots : StreamNotOk(s)
    \/ \E s \in Slots : ServerAccept(s)
    \/ \E s \in Slots : ServerCommit(s)
    \/ \E s \in Slots, tok \in Tokens : StreamToken(s, tok)
    \/ \E s \in Slots : StreamDone(s)
    \/ \E s \in Slots : StreamConflict(s)
    \/ \E s \in Slots, ok \in BOOLEAN : CallHistoryDone(s, ok)
    \/ \E s \in Slots, ok \in BOOLEAN : CallRefreshDone(s, ok)

SpecSwitch == InitSwitch /\ [][NextSwitch]_vars

\* a new, empty thread is open and no file is selected
InitFiles == Start({1}, 1, Budget(FileRequests, FileNav, FileFaults, 1))

\* the turn of a message sent from InputArea, without failures
SendTurn ==
    \/ \E s \in Slots : ServerAccept(s)
    \/ \E s \in Slots : ServerCommit(s)
    \/ \E s \in Slots, tok \in Tokens : StreamToken(s, tok)
    \/ \E s \in Slots : StreamDone(s)
    \/ \E s \in Slots : CallRefreshDone(s, TRUE)

\* InputArea on an open thread: files are selected, uploaded, polled,
\* removed and sent
NextFiles ==
    \/ \E files \in Selections : handleFileSelect(files)
    \/ \E u \in 1..MaxUploads, failed \in SUBSET {f.name : f \in FilePool} :
            uploadSettled(u, failed)
    \/ \E u \in 1..MaxUploads : uploadThrows(u)
    \/ \E u \in 1..MaxUploads : startProcessingPoll(u)
    \/ \E f \in FilePool : pollStatus(f.name)
    \/ \E index \in 0..(2 * MaxSelect) : removeFile(index)
    \/ \E u \in 1..MaxUploads, ok \in BOOLEAN : removeFileDone(u, ok)
    \/ \E c \in Contents : handleSubmit(c)
    \/ SendTurn

SpecFiles == InitFiles /\ [][NextFiles]_vars

\* a new, empty thread is open and no file is selected
InitPoll == Start({1}, 1, Budget(0, PollNav, PollFaults, 0))

\* InputArea while threads are created, selected and deleted: files are
\* selected, uploaded, polled and removed
NextPoll ==
    \/ \E files \in Selections : handleFileSelect(files)
    \/ \E u \in 1..MaxUploads, failed \in SUBSET {f.name : f \in FilePool} :
            uploadSettled(u, failed)
    \/ \E u \in 1..MaxUploads : uploadThrows(u)
    \/ \E u \in 1..MaxUploads : startProcessingPoll(u)
    \/ \E f \in FilePool : pollStatus(f.name)
    \/ \E index \in 0..(2 * MaxSelect) : removeFile(index)
    \/ \E u \in 1..MaxUploads, ok \in BOOLEAN : removeFileDone(u, ok)
    \/ Threads
    \/ Loads

SpecPoll == InitPoll /\ [][NextPoll]_vars

\* no thread exists and none is open; no file is selected
InitUpload == Start({}, NULL, Budget(0, UploadNav, UploadFaults, 0))

\* InputArea with no thread open: the first upload creates the thread
NextUpload ==
    \/ \E files \in Selections : handleFileSelect(files)
    \/ \E u \in 1..MaxUploads : uploadThreadCreated(u)
    \/ \E u \in 1..MaxUploads : uploadThreadFailed(u)
    \/ \E u \in 1..MaxUploads : uploadRefreshDone(u)
    \/ \E u \in 1..MaxUploads, failed \in SUBSET {f.name : f \in FilePool} :
            uploadSettled(u, failed)
    \/ \E u \in 1..MaxUploads : uploadThrows(u)
    \/ \E u \in 1..MaxUploads : startProcessingPoll(u)
    \/ \E f \in FilePool : pollStatus(f.name)
    \/ Loads

SpecUpload == InitUpload /\ [][NextUpload]_vars

\* a new, empty thread is open; two loadMessages fetches may be in flight
InitLoads ==
    Start({1}, 1, [Budget(LoadRequests, LoadNav, 0, 1) EXCEPT !.loads = LoadsAtOnce])

\* a send, then threads are created, selected and deleted while the loads
\* they start are answered in any order
NextLoads ==
    \/ \E c \in Contents : sendMessage(c)
    \/ Threads
    \/ Loads
    \/ SendTurn

SpecLoads == InitLoads /\ [][NextLoads]_vars

(***************************************************************************)
(* The streamChat and streamFork generators (lib/api).  The response text  *)
(* is a sequence of symbols: a newline, the prefix "data: ", the JSON text *)
(* of one event, or text that is no JSON.  reader.read() hands the text    *)
(* over in chunks cut anywhere.                                            *)
(***************************************************************************)
Front(s) == SubSeq(s, 1, Len(s) - 1)

ChatEvent(type, content) == [type |-> type, content |-> content]

NoEvent == ChatEvent("", "")

NL == [k |-> "nl", ev |-> NoEvent]

DataPrefix == [k |-> "data", ev |-> NoEvent]

Json(event) == [k |-> "json", ev |-> event]

NotJson == [k |-> "text", ev |-> NoEvent]

\* the events a server writes; a frame of type "text" carries no JSON
EventPool ==
    {ChatEvent("token", "x"), ChatEvent("token", "y"), ChatEvent("done", ""),
     ChatEvent("error", "boom"), ChatEvent("text", "")}

\* a frame: one data line, closed by a blank line or (joined) by one newline
Frames == [ev : EventPool, joined : BOOLEAN]

FrameSeqs == UNION {[1..n -> Frames] : n \in 0..MaxFrames}

FrameText(f) ==
    <<DataPrefix, IF f.ev.type = "text" THEN NotJson ELSE Json(f.ev)>>
        \o (IF f.joined THEN <<NL>> ELSE <<NL, NL>>)

RECURSIVE Flatten(_)
Flatten(ss) == IF ss = <<>> THEN <<>> ELSE ss[1] \o Flatten(Tail(ss))

\* the text of a response
Encode(frames) == Flatten(Map(frames, FrameText))

\* String.prototype.split(sep), sep one newline (width 1) or two (width 2)
RECURSIVE Split(_, _)
Split(s, width) ==
    LET At(i) == \A d \in 0..(width - 1) : s[i + d] = NL
        found == {i \in 1..(Len(s) - width + 1) : At(i)}
    IN  IF found = {} THEN <<s>>
        ELSE LET i == CHOOSE j \in found : \A m \in found : j <= m
             IN  <<SubSeq(s, 1, i - 1)>> \o Split(SubSeq(s, i + width, Len(s)), width)

\* String.prototype.trim()
RECURSIVE Trim(_)
Trim(s) ==
    IF s = <<>> THEN s
    ELSE IF s[1] = NL THEN Trim(Tail(s))
    ELSE IF s[Len(s)] = NL THEN Trim(Front(s))
    ELSE s

\* JSON.parse(data) inside try/catch: the event, or none when it throws
Parse(data) ==
    IF Len(data) = 1 /\ data[1].k = "json" THEN <<data[1].ev>> ELSE <<>>

\* one line: if (line.startsWith("data: ")) parse line.slice(6)
LineEvents(line) ==
    IF line # <<>> /\ line[1] = DataPrefix THEN Parse(Tail(line)) ELSE <<>>

\* one message of buffer.split("\n\n"): trimmed, skipped if empty, its lines
MessageEvents(message) ==
    IF Trim(message) = <<>> THEN <<>>
    ELSE Flatten(Map(Split(Trim(message), 1), LineEvents))

Terminal(event) == event.type \in {"done", "error"}

HasTerminal(events) == \E i \in 1..Len(events) : Terminal(events[i])

\* variant: the generator goes on after a done or error event
YieldAll(events) == events

\* yield event; if (event.type === "done" || event.type === "error") return
Yielded(events) ==
    IF HasTerminal(events)
    THEN SubSeq(events, 1, CHOOSE i \in 1..Len(events) :
                               /\ Terminal(events[i])
                               /\ \A j \in 1..(i - 1) : ~Terminal(events[j]))
    ELSE events

SseUnchanged ==
    UNCHANGED <<beforePreview, lim, areaVars, srvVars, uiVars, calls, loads, histFetch, counters>>

\* the fetch answers: not OK, or without a body, yields one error event
streamOpen(fork, outcome) ==
    /\ sse.pc = "fetch"
    /\ sse' = IF outcome = "ok" THEN [sse EXCEPT !.pc = "read"]
              ELSE [sse EXCEPT
                      !.pc = "returned",
                      !.out = <<ChatEvent("error",
                                  IF outcome = "noBody" THEN "No response body"
                                  ELSE IF fork THEN "Failed to fork: 500"
                                  ELSE "Failed to send message: 500")>>]
    /\ SseUnchanged

\* variant: the incomplete message at the end of a chunk is not kept
readChunkDropsRest(k) ==
    /\ sse.pc = "read"
    /\ k \in 1..Len(sse.wire)
    /\ LET parts == Split(sse.buffer \o SubSeq(sse.wire, 1, k), 2)
           events == Flatten(Map(Front(parts), MessageEvents))
       IN  sse' = [sse EXCEPT
                     !.wire = SubSeq(sse.wire, k + 1, Len(sse.wire)),
                     !.buffer = <<>>,
                     !.out = @ \o Yielded(events),
                     !.pc = IF HasTerminal(events) THEN "returned" ELSE "read"]
    /\ SseUnchanged

\* reader.read() resolves with the next k symbols of the response
readChunk(k) ==
    /\ sse.pc = "read"
    /\ k \in 1..Len(sse.wire)
    /\ LET parts == Split(sse.buffer \o SubSeq(sse.wire, 1, k), 2)
           events == Flatten(Map(Front(parts), MessageEvents))
       IN  sse' = [sse EXCEPT
                     !.wire = SubSeq(sse.wire, k + 1, Len(sse.wire)),
                     !.buffer = Last(parts),
                     !.out = @ \o Yielded(events),
                     !.pc = IF HasTerminal(events) THEN "returned" ELSE "read"]
    /\ SseUnchanged

\* reader.read() resolves with done (the response ended, or the connection
\* was closed before its end): the remaining buffer is parsed as one event
readDone ==
    /\ sse.pc = "read"
    /\ LET remaining == Trim(sse.buffer) IN
       sse' = [sse EXCEPT
                 !.wire = <<>>,
                 !.buffer = <<>>,
                 !.out = @ \o (IF remaining # <<>> /\ remaining[1] = DataPrefix
                               THEN Parse(Tail(remaining)) ELSE <<>>),
                 !.pc = "returned"]
    /\ SseUnchanged

\* reader.read() rejects: the lock is released and the generator throws
readThrows ==
    /\ sse.pc = "read"
    /\ sse' = [sse EXCEPT !.pc = "thrown"]
    /\ SseUnchanged

InitSse ==
    /\ Constructed({}, NULL, Budget(0, 0, 0, 0))
    /\ \E frames \in FrameSeqs :
          sse = [pc |-> "fetch", frames |-> frames, wire |-> Encode(frames),
                 buffer |-> <<>>, out |-> <<>>]

NextSse ==
    \/ \E fork \in BOOLEAN, outcome \in {"ok", "notOk", "noBody"} : streamOpen(fork, outcome)
    \/ \E k \in 1..(4 * MaxFrames) : readChunk(k)
    \/ readDone
    \/ readThrows

\* one generator reading one response
SpecSse == InitSse /\ [][NextSse]_vars

\* a new, empty thread is open; one generator awaits the answer to its fetch
InitNotOk ==
    /\ Constructed({1}, 1, Budget(NotOkRequests, NotOkNav, 0, 1))
    /\ \E frames \in {fs \in FrameSeqs : Len(fs) = 1} :
          sse = [pc |-> "fetch", frames |-> frames, wire |-> Encode(frames),
                 buffer |-> <<>>, out |-> <<>>]

\* sends and forks on a thread that another consumer may delete, and the
\* answer to the generator's fetch
NextNotOk ==
    \/ \E c \in Contents : sendMessage(c)
    \/ toggleTimeline
    \/ \E ok \in BOOLEAN : loadHistoryDone(ok)
    \/ \E i \in 1..Len(checkpoints), c \in Contents : TimelineFork(i, c)
    \/ \E t \in ThreadIds : ApiDeleteThread(t)
    \/ \E s \in Slots : StreamNotOk(s)
    \/ \E s \in Slots : ServerAccept(s)
    \/ \E s \in Slots : ServerCommit(s)
    \/ \E s \in Slots, tok \in Tokens : StreamToken(s, tok)
    \/ \E s \in Slots : StreamDone(s)
    \/ \E s \in Slots : StreamConflict(s)
    \/ \E s \in Slots, ok \in BOOLEAN : CallHistoryDone(s, ok)
    \/ \E s \in Slots, ok \in BOOLEAN : CallRefreshDone(s, ok)
    \/ \E fork \in BOOLEAN, outcome \in {"ok", "notOk", "noBody"} : streamOpen(fork, outcome)

SpecNotOk == InitNotOk /\ [][NextNotOk]_vars

(***************************************************************************)
(* Properties.                                                             *)
(***************************************************************************)
\* what loadMessages would show for thread t
Reloaded(t) == Shown(FromRows(msgTable[t]))

\* the role/content pairs a preview of checkpoint cp shows
Recorded(cp) == Shown(FromCheckpoint(cp))

\* C1: while a checkpoint is selected, the display is exactly that
\* checkpoint's recorded messages (same length, order, role and content) and
\* holds no optimistic or Message-table message.
PreviewShowsCheckpoint ==
    selectedCheckpoint # NoCheckpoint =>
        /\ Shown(messages) = Recorded(selectedCheckpoint)
        /\ \A i \in 1..Len(messages) : messages[i].id.kind = "checkpoint"

\* a step appends the optimistic human message of a call
AppendsOptimistic ==
    \E i \in 1..Len(messages') :
        /\ messages'[i].id.kind = "user"
        /\ \A j \in 1..Len(messages) : messages[j].id # messages'[i].id

\* C2: every sendMessage, editMessage and forkFromCheckpoint call that passes
\* its guard has selectedCheckpoint set to null at the moment it appends its
\* optimistic human message.
OptimisticExitsPreview ==
    [][AppendsOptimistic => selectedCheckpoint' = NoCheckpoint]_vars

\* every checkpoint of the log is still returned by get and by list_history,
\* with the same parent, step and content
Preserved ==
    \A i \in 1..Len(cpLog) :
        /\ get(cpLog', cpLog[i].checkpoint_id) = cpLog[i]
        /\ \E j \in 1..Len(list_history(cpLog', cpLog[i].thread_id)) :
               list_history(cpLog', cpLog[i].thread_id)[j] = cpLog[i]

\* the log grew by one fresh checkpoint under parent
OneNewCheckpoint(parent) ==
    /\ Len(cpLog') = Len(cpLog) + 1
    /\ SubSeq(cpLog', 1, Len(cpLog)) = cpLog
    /\ Last(cpLog').parent_checkpoint_id = parent
    /\ Last(cpLog').checkpoint_id \notin CpIds(cpLog)

\* a step of the request in slot s
StepOf(s) == calls[s].pc \in {"request", "stream", "committed"} /\ calls'[s] # calls[s]

\* C3: a fork request from checkpoint C never deletes or modifies an existing
\* checkpoint; the only change it makes to the checkpoint log is one new
\* checkpoint whose parent is C.
ForkLeavesHistory ==
    [][\A s \in Slots :
          (StepOf(s) /\ calls[s].fork) =>
              /\ Preserved
              /\ cpLog' = cpLog \/ OneNewCheckpoint(calls[s].checkpointId)]_vars

\* a fork from a checkpoint has committed its branch next to the old ones
ForkCommitted ==
    \E s \in Slots :
        /\ calls[s].fork
        /\ calls[s].pc = "committed"
        /\ Len(cpLog) >= 2
        /\ Last(cpLog).parent_checkpoint_id = calls[s].checkpointId

\* the request in slot s is accepted, completes, fails in this step
Accepts(s) == calls[s].pc = "request" /\ calls'[s].pc = "stream"

Completes(s) == calls[s].pc = "stream" /\ calls'[s].pc = "committed"

Fails(s) ==
    /\ calls[s].pc \in {"request", "stream"}
    /\ calls'[s].pc \notin {"request", "stream", "committed"}

\* the Message table changed by one appended row of the role, in thread t only
OneNewRow(t, role) ==
    /\ Len(msgTable'[t]) = Len(msgTable[t]) + 1
    /\ SubSeq(msgTable'[t], 1, Len(msgTable[t])) = msgTable[t]
    /\ Last(msgTable'[t]).role = role
    /\ \A u \in ThreadIds \ {t} : msgTable'[u] = msgTable[u]

\* a failing request commits nothing and has logged the human message only
NothingOnFailure(s) ==
    /\ Accepts(s) => cpLog' = cpLog /\ OneNewRow(calls[s].thread, "human")
    /\ Fails(s) => cpLog' = cpLog /\ msgTable' = msgTable
    /\ (StepOf(s) /\ calls[s].pc = "stream" /\ calls'[s].pc = "stream") =>
           cpLog' = cpLog /\ msgTable' = msgTable

Retry(s) ==
    Identical(cpLog, calls[s].thread, DefaultNs, calls[s].base,
              NextStep(cpLog, calls[s].base),
              CommitContent(cpLog, calls[s].base, <<calls[s].content>>, calls[s].reply))

Matching(t, i) == {k \in ThreadCpIdx(cpLog, t) : Len(cpLog[k].messages) = i}

\* C5: editMessage at index i forks exactly when some existing checkpoint of
\* the thread has exactly i recorded messages, and from a checkpoint with
\* exactly i recorded messages; otherwise it issues a plain streamChat.
EditForksIffMatch ==
    \A s \in Slots :
        (calls[s].kind = "edit" /\ calls[s].pc = "request" /\ nfault = 0) =>
            IF Matching(calls[s].thread, calls[s].index) # {}
            THEN /\ calls[s].fork
                 /\ Len(resume_from(cpLog, calls[s].checkpointId)) = calls[s].index
            ELSE ~calls[s].fork

\* what an edit at index i is to leave: messages [0, i), the edited human
\* message, the reply
AfterEdit(c) ==
    Shown(c.kept) \o <<Pair("human", <<c.content>>), Pair("ai", c.reply)>>

\* C6: when editMessage falls back to a plain send, the checkpoint the turn
\* commits holds the truncated history (messages [0, i)) followed by the
\* edited message and its reply, not the pre-edit history.
FallbackCommitsTruncated ==
    \A s \in Slots :
        (calls[s].kind = "edit" /\ ~calls[s].fork /\ calls[s].pc = "committed") =>
            Last(cpLog).messages = AfterEdit(calls[s])

\* C7: after an edit at index i, reloading the thread yields exactly i + 2
\* messages: messages [0, i) unchanged, the edited human message, the new AI
\* reply; no message that was at index >= i persists.
EditThenReload ==
    \A s \in Slots :
        (calls[s].kind = "edit" /\ calls[s].truncated /\ calls[s].pc = "committed") =>
            /\ Len(Reloaded(calls[s].thread)) = calls[s].index + 2
            /\ Reloaded(calls[s].thread) = AfterEdit(calls[s])

\* C8: in live mode with no request in flight, display position k shows the
\* message at position k of the thread's Message table, also after a send
\* whose generation failed.
LiveMatchesTable ==
    (selectedCheckpoint = NoCheckpoint /\ Quiet /\ currentThreadId # NULL) =>
        \A k \in 1..Len(messages) :
            /\ k <= Len(msgTable[currentThreadId])
            /\ Shown(messages)[k] = RowPair(msgTable[currentThreadId][k])

\* a preview entered from a quiet live display was left by the next gesture,
\* and the reload has come back
RoundTripDone ==
    /\ beforePreview.quiet
    /\ selectedCheckpoint = NoCheckpoint
    /\ Quiet
    /\ nreq = beforePreview.nreq
    /\ nnav = beforePreview.nnav + 2
    /\ nfault = beforePreview.nfault

\* C9: from a live display with no request in flight, selectCheckpoint(c)
\* followed by selectCheckpoint(null) yields, once the reload has finished,
\* a display with the same length, roles and contents as before.
SelectDeselectRestores ==
    RoundTripDone => Shown(messages) = beforePreview.shown

RECURSIVE ReachesRoot(_, _, _)
ReachesRoot(log, id, seen) ==
    IF id = NULL THEN TRUE
    ELSE IF id \in seen \/ id \notin CpIds(log) THEN FALSE
    ELSE ReachesRoot(log, get(log, id).parent_checkpoint_id, seen \cup {id})

\* C10: every non-root checkpoint has step = parent.step + 1, every root has
\* step 0 and a null parent, and the parent pointers of any checkpoint lead
\* to a root without visiting a checkpoint twice.
LineageWellFormed ==
    \A i \in 1..Len(cpLog) :
        /\ IF cpLog[i].parent_checkpoint_id = NULL
           THEN cpLog[i].step = 0
           ELSE /\ cpLog[i].parent_checkpoint_id \in CpIds(cpLog)
                /\ cpLog[i].step = get(cpLog, cpLog[i].parent_checkpoint_id).step + 1
                /\ get(cpLog, cpLog[i].parent_checkpoint_id).thread_id = cpLog[i].thread_id
        /\ ReachesRoot(cpLog, cpLog[i].checkpoint_id, {})

\* a lineage of three checkpoints: root, child, grandchild
ThreeDeep == \E i \in 1..Len(cpLog) : cpLog[i].step = 2

\* the thread of the request in slot s holds exactly a step-0 checkpoint
\* [H1, A1] and under it a step-1 checkpoint [H1, A1, H2, A2]; the request is
\* a fork from the step-0 checkpoint with another message than H2, and its
\* reply has been generated
ForkFromStepZero(s) ==
    LET history == list_history(cpLog, calls[s].thread) IN
    /\ calls[s].fork
    /\ calls[s].pc = "stream"
    /\ calls[s].reply # <<>>
    /\ Len(history) = 2
    /\ history[2].step = 0
    /\ Len(history[2].messages) = 2
    /\ history[1].step = 1
    /\ history[1].parent_checkpoint_id = history[2].checkpoint_id
    /\ Len(history[1].messages) = 4
    /\ SubSeq(history[1].messages, 1, 2) = history[2].messages
    /\ calls[s].checkpointId = history[2].checkpoint_id
    /\ <<calls[s].content>> # history[1].messages[3].content

\* C11: in a thread whose checkpoints are step 0 [H1, A1] and step 1
\* [H1, A1, H2, A2], a fork from the step-0 checkpoint with message H2b (no
\* failure of generation or of the network) creates a checkpoint with step 2,
\* parent the step-0 checkpoint and content [H1, A1, H2b, A2b], and the
\* step-1 checkpoint stays retrievable with unchanged parent, step and content.
ForkScenarioStepTwo ==
    [][\A s \in Slots :
          (ForkFromStepZero(s) /\ calls'[s].pc # "stream" /\ nfault' = nfault) =>
              /\ OneNewCheckpoint(calls[s].checkpointId)
              /\ Last(cpLog').step = 2
              /\ Last(cpLog').messages =
                     resume_from(cpLog, calls[s].checkpointId)
                         \o <<Pair("human", <<calls[s].content>>),
                              Pair("ai", calls[s].reply)>>
              /\ Preserved]_vars

\* the key and the content the request in slot s is about to append
Commits(s, Rule(_, _, _, _, _, _)) ==
    Rule(cpLog, calls[s].thread, DefaultNs, calls[s].base,
         NextStep(cpLog, calls[s].base),
         CommitContent(cpLog, calls[s].base, <<calls[s].content>>, calls[s].reply))

\* the log after the append of the request in slot s
Appended(s) ==
    append(cpLog, cpSeq + 1, calls[s].thread, DefaultNs, calls[s].base,
           NextStep(cpLog, calls[s].base),
           CommitContent(cpLog, calls[s].base, <<calls[s].content>>, calls[s].reply))

\* the request in slot s has its reply and is about to append
Appending(s) ==
    /\ calls[s].pc = "stream"
    /\ calls[s].reply # <<>>
    /\ calls[s].base # NULL => calls[s].base \in CpIds(cpLog)

\* C12: append is idempotent for an identical payload (it adds no record)
\* and, for a key (thread_id, namespace, parent_checkpoint_id, step) that
\* holds a different record, fails and leaves the log unchanged; otherwise it
\* adds one record; so no two records of the log share a key, and two forks
\* from one checkpoint with different messages are never both committed.
AppendContract ==
    /\ \A s \in Slots :
          Appending(s) =>
              IF Commits(s, Identical) \/ Commits(s, Conflict)
              THEN Appended(s) = cpLog
              ELSE /\ Len(Appended(s)) = Len(cpLog) + 1
                   /\ SubSeq(Appended(s), 1, Len(cpLog)) = cpLog
                   /\ Last(Appended(s)).checkpoint_id = cpSeq + 1
    /\ \A i, j \in 1..Len(cpLog) :
          SameKey(cpLog[i], cpLog[j].thread_id, cpLog[j].checkpoint_ns,
                  cpLog[j].parent_checkpoint_id, cpLog[j].step) => i = j

\* a second fork from a checkpoint, with another message than the branch
\* already committed under it, is about to be refused
SecondForkRefused ==
    \E s \in Slots :
        /\ calls[s].fork
        /\ Appending(s)
        /\ Commits(s, Conflict)
        /\ \E i \in 1..Len(cpLog) : cpLog[i].parent_checkpoint_id = calls[s].checkpointId

\* the requests in slots s and r are forks from the same checkpoint; r has
\* committed and s has its reply and is about to append
SecondFork(s, r) ==
    /\ s # r
    /\ calls[s].fork /\ calls[r].fork
    /\ calls[s].thread = calls[r].thread
    /\ calls[s].checkpointId = calls[r].checkpointId
    /\ calls[r].pc = "committed"
    /\ Appending(s)
    /\ calls[s].thread \in srvThreads

\* C13: when two fork requests start from the same checkpoint C, each one
\* commits its own new checkpoint descending from C (unless generation or
\* the network fails), and the branches committed before stay addressable.
EachForkCommits ==
    [][\A s, r \in Slots :
          (SecondFork(s, r) /\ calls'[s].pc # "stream" /\ nfault' = nfault) =>
              /\ OneNewCheckpoint(calls[s].checkpointId)
              /\ Preserved]_vars

\* C14: truncate(thread, keep_count) on a thread with n messages deletes
\* exactly the messages at index >= keep_count, leaves messages
\* [0, keep_count) unchanged and in the same order, and returns
\* deleted_count = max(0, n - keep_count).
TruncateKeepsPrefix ==
    \A t \in ThreadIds :
        \A keep_count \in 0..(Len(msgTable[t]) + 1) :
            LET n == Len(msgTable[t])
                kept == truncate(msgTable[t], keep_count)
            IN  /\ Len(kept) = IF keep_count < n THEN keep_count ELSE n
                /\ \A j \in 1..Len(kept) : kept[j] = msgTable[t][j]
                /\ deleted_count(msgTable[t], keep_count) =
                       IF n > keep_count THEN n - keep_count ELSE 0

\* of the four messages H1, A1, H2, A2 that the two turns of a thread logged,
\* a truncation has left two, unchanged and in order
TruncatedToTwo ==
    \E t \in srvThreads :
        /\ InFlight = {}
        /\ Len(list_history(cpLog, t)) = 2
        /\ Len(list_history(cpLog, t)[1].messages) = 4
        /\ list_history(cpLog, t)[1].messages[3] # list_history(cpLog, t)[1].messages[1]
        /\ Len(msgTable[t]) = 2
        /\ Pairs(msgTable[t]) = list_history(cpLog, t)[2].messages

\* the events of the frames of a response, in the order of the frames
Sent(frames) ==
    Flatten(Map(frames, LAMBDA f : IF f.ev.type = "text" THEN <<>> ELSE <<f.ev>>))

IsPrefix(s, t) == Len(s) <= Len(t) /\ s = SubSeq(t, 1, Len(s))

\* C15: streamChat and streamFork yield events in the order their frames
\* arrive and yield nothing after the first done or error event: at most
\* one terminal event is yielded and it is the last event yielded.
TerminalEventIsLast ==
    /\ \A i \in 1..(Len(sse.out) - 1) : ~Terminal(sse.out[i])
    /\ sse.pc = "read" => ~HasTerminal(sse.out)
    /\ sse.pc \in {"read", "thrown"} \/ sse.buffer # <<>> \/ sse.wire # Encode(sse.frames)
          => IsPrefix(sse.out, Sent(sse.frames))

\* the generator has returned at a terminal event that other events followed
\* in the response
ReturnedAtTerminal ==
    /\ sse.pc = "returned"
    /\ Len(sse.out) >= 2
    /\ Terminal(Last(sse.out))
    /\ IsPrefix(sse.out, Sent(sse.frames))
    /\ Len(sse.out) < Len(Sent(sse.frames))

\* the AI placeholder of the call numbered n, in the display msgs
Placeholder(msgs, n) ==
    msgs[CHOOSE i \in 1..Len(msgs) : msgs[i].id = aiMessageId(n)]

HasPlaceholder(msgs, n) == \E i \in 1..Len(msgs) : msgs[i].id = aiMessageId(n)

\* the step changes no display message but the AI placeholder of call n
OnlyPlaceholderChanges(n) ==
    /\ Len(messages') = Len(messages)
    /\ \A i \in 1..Len(messages) :
          messages[i].id # aiMessageId(n) => messages'[i] = messages[i]

\* the done event of the send in slot s is processed in this step
DoneProcessed(s) ==
    /\ calls[s].kind = "send"
    /\ calls[s].pc = "committed"
    /\ calls'[s].pc = "refreshThreads"

\* the token events the call has received: its reply without the text of a
\* message event
TokensReceived(c) ==
    IF c.reply # <<>> /\ SubSeq(c.reply, 1, Len(FullMessage)) = FullMessage
    THEN SubSeq(c.reply, Len(FullMessage) + 1, Len(c.reply))
    ELSE c.reply

\* C16: for a send on an existing thread with no other user action during
\* the stream, when the done event is processed the AI placeholder's content
\* equals the in-order concatenation of the content of all token events
\* received, its streaming flag is false, and no other display message has
\* been changed.
DoneShowsTokens ==
    [][\A s \in Slots :
          /\ (calls[s].kind = "send" /\ StepOf(s)) => OnlyPlaceholderChanges(calls[s].n)
          /\ DoneProcessed(s) =>
                /\ Placeholder(messages', calls[s].n).content = TokensReceived(calls[s])
                /\ ~Placeholder(messages', calls[s].n).isStreaming]_vars

\* C16, amended: when the done event is processed the AI placeholder's
\* content equals the content of the message event, if one was received,
\* followed by the in-order concatenation of the content of the token events
\* received after it; its streaming flag is false and no other display
\* message has been changed.
DoneShowsMessageAndTokens ==
    [][\A s \in Slots :
          /\ (calls[s].kind = "send" /\ StepOf(s)) => OnlyPlaceholderChanges(calls[s].n)
          /\ DoneProcessed(s) =>
                /\ Placeholder(messages', calls[s].n).content = calls[s].reply
                /\ ~Placeholder(messages', calls[s].n).isStreaming]_vars

\* the second send of a thread has received the tokens x and y and then done
TwoTokensDone ==
    \E s \in Slots :
        /\ calls[s].kind = "send"
        /\ calls[s].pc = "refreshThreads"
        /\ calls[s].reply = <<"x", "y">>
        /\ Len(messages) = 4
        /\ Placeholder(messages, calls[s].n) = ChatMessage(aiMessageId(calls[s].n), "ai", <<"x", "y">>, FALSE)

\* in the display after, the placeholder of call c shows the text and is not
\* streaming, the optimistic human message of c is there, and no other
\* message differs from the display before
ShowsFailure(before, after, c, text) ==
    /\ HasPlaceholder(after, c.n)
    /\ Placeholder(after, c.n) = ChatMessage(aiMessageId(c.n), "ai", text, FALSE)
    /\ \E i \in 1..Len(after) : after[i] = userMessage(c.n, <<c.content>>)
    /\ Len(after) = Len(before)
    /\ \A i \in 1..Len(before) : before[i].id # aiMessageId(c.n) => after[i] = before[i]

\* the call in slot s is reading its stream and its placeholder is displayed
Streaming(s) ==
    /\ Mine(calls[s])
    /\ calls[s].pc \in {"request", "stream", "committed"}
    /\ HasPlaceholder(messages, calls[s].n)

\* C17: when a send, fork or edit stream delivers an error event or throws,
\* the AI placeholder's content is replaced by an error text, discarding the
\* tokens already appended ("Error: <content>" for an error event, "Failed
\* to get response. Please try again." for an exception), its streaming flag
\* is cleared and the optimistic human message stays in the display.
FailureReplacesContent ==
    [][\A s \in Slots :
          Streaming(s) =>
              /\ \A text \in {<<"boom">>, <<"Failed to fork: ", "500">>} :
                    ShowsFailure(messages,
                                 OnEvent(calls[s].kind, messages, aiMessageId(calls[s].n),
                                         [type |-> "error", content |-> text]),
                                 calls[s], <<"Error: ">> \o text)
              /\ (calls'[s].pc = AfterStream(calls[s]) /\ messages' # messages
                    /\ calls[s].pc # "committed") =>
                     \E text \in {<<"generation failed">>, <<"conflict">>} :
                         ShowsFailure(messages, messages', calls[s], <<"Error: ">> \o text)
              /\ calls'[s] = Idle =>
                     ShowsFailure(messages, messages', calls[s], FailureText)]_vars

\* an error event has replaced the token shown by the placeholder of an
\* edit, whose human message is displayed
ErrorAfterToken ==
    \E s \in Slots :
        /\ calls[s].kind = "edit"
        /\ calls[s].pc = "loadHistory"
        /\ calls[s].reply = <<"x">>
        /\ ShowsFailure(messages, messages, calls[s], <<"Error: ", "generation failed">>)

\* a message event has been received by the call
GotMessage(c) ==
    c.reply # <<>> /\ SubSeq(c.reply, 1, Len(FullMessage)) = FullMessage

\* what the placeholder of a sendMessage call shows for the events received
\* so far: their contents, still streaming unless a message event came
ShownBySend(c) ==
    ChatMessage(aiMessageId(c.n), "ai", c.reply, ~GotMessage(c))

\* C18: for the same sequence of stream events (progress, token, message,
\* done, error), forkFromCheckpoint and the edit fallback path leave the AI
\* placeholder with the same content and streaming flag as sendMessage does.
SameAsSend ==
    \A s \in Slots :
        (Streaming(s) /\ calls[s].pc \in {"stream", "committed"}) =>
            Placeholder(messages, calls[s].n) = ShownBySend(calls[s])

\* the call in slot s has issued a truncate, chat or fork request that is
\* not over
Requesting(s) ==
    /\ Mine(calls[s])
    /\ calls[s].pc \in {"truncate", "request", "stream", "committed"}

\* C19: a client never has two chat or fork stream requests in flight at the
\* same time: from the moment a sendMessage, editMessage or
\* forkFromCheckpoint call passes its guard until it completes, no further
\* call issues a truncate, chat or fork request.
OneRequestAtATime ==
    \A s, r \in Slots : (Requesting(s) /\ Requesting(r)) => s = r

\* the sendMessage call in slot s has issued its chat request
ChatIssued(s) ==
    /\ calls[s].kind = "send"
    /\ calls[s].pc \in {"request", "stream", "committed", "refreshThreads"}

\* C20: after every sendMessage that issued a chat request, whatever the
\* outcome (done, error event, stream closed without a terminal event, or
\* thrown exception), refreshThreads is invoked before isLoading returns to
\* false: isLoading falls only in the step that ends the awaited refresh.
RefreshBeforeIdle ==
    [][\A s \in Slots :
          (ChatIssued(s) /\ isLoading /\ ~isLoading') =>
              calls[s].pc = "refreshThreads"]_vars

\* the call in slot s runs forkFromCheckpoint
Forking(s) == calls[s].kind = "fork" \/ (calls[s].kind = "edit" /\ calls[s].fork)

\* the stream of the call in slot s ends in this step without an exception
StreamEnds(s) ==
    /\ calls[s].pc \in {"request", "stream", "committed"}
    /\ calls'[s].pc \notin {"request", "stream", "committed", "idle"}

\* C21: after the stream of a forkFromCheckpoint completes (with done or
\* with an error event), the client reloads the checkpoint list
\* (loadHistory) and then the thread list (refreshThreads), both before
\* isLoading returns to false.
ForkReloadsThenRefreshes ==
    [][\A s \in Slots :
          Forking(s) =>
              /\ StreamEnds(s) => calls'[s].pc = "loadHistory" /\ isLoading'
              /\ (calls[s].pc = "loadHistory" /\ calls'[s] # calls[s]) =>
                     /\ calls'[s].pc = "refreshThreads"
                     /\ isLoading'
                     /\ checkpoints' \in {checkpoints, list_history(cpLog, calls[s].thread)}
              /\ (calls[s].pc = "refreshThreads" /\ calls'[s] # calls[s]) =>
                     /\ calls'[s] = Idle
                     /\ ~isLoading'
                     /\ threads' \in {threads, srvThreads}
              /\ (calls[s].pc \in {"loadHistory", "refreshThreads"}
                     /\ calls'[s] = calls[s]) => isLoading']_vars

\* a fork has reloaded the checkpoint list after its stream and is awaiting
\* the thread list, isLoading still true
ForkAwaitsRefresh ==
    \E s \in Slots :
        /\ calls[s].kind = "fork"
        /\ calls[s].pc = "refreshThreads"
        /\ isLoading
        /\ checkpoints = list_history(cpLog, calls[s].thread)
        /\ Len(checkpoints) >= 2

\* the checkpoint that the request of call c has committed, if it is record k
CommittedBy(c, k) ==
    /\ cpLog[k].thread_id = c.thread
    /\ cpLog[k].parent_checkpoint_id = c.base
    /\ cpLog[k].messages = CommitContent(cpLog, c.base, <<c.content>>, c.reply)

\* the send in slot s, whose stream ended with done, finishes in this step
SendFinishes(s) ==
    /\ calls[s].kind = "send"
    /\ calls[s].pc = "refreshThreads"
    /\ calls'[s] = Idle
    /\ calls[s].reply # <<>>
    /\ HasPlaceholder(messages, calls[s].n)
    /\ Placeholder(messages, calls[s].n) =
           ChatMessage(aiMessageId(calls[s].n), "ai", calls[s].reply, FALSE)
    /\ \E k \in 1..Len(cpLog) : CommittedBy(calls[s], k)

\* C22: after any send that completes with done, the client refreshes its
\* checkpoint list, so that once the send has finished the list held by the
\* client contains the checkpoint committed by that send.
SendRefreshesCheckpoints ==
    [][\A s \in Slots :
          SendFinishes(s) =>
              \E k \in 1..Len(cpLog) :
                  /\ CommittedBy(calls[s], k)
                  /\ \E i \in 1..Len(checkpoints') : checkpoints'[i] = cpLog[k]]_vars

\* the call in slot s has set isLoading and has not returned
Busy(s) ==
    /\ Mine(calls[s])
    /\ calls[s].pc \in {"request", "stream", "committed", "loadHistory", "refreshThreads"}

\* C23: every send, fork or edit that has set isLoading to true returns, and
\* the step by which it returns (after done, after an error event, after the
\* stream closed without a terminal event, or from the catch block of a
\* thrown exception) leaves isLoading false and progressStatus null, so that
\* sendMessage is no longer refused
LoadingEnds ==
    /\ [][\A s \in Slots :
            (Busy(s) /\ calls'[s] = Idle) => (~isLoading' /\ progressStatus' = NoProgress)]_vars
    /\ \A s \in Slots :
            Busy(s) ~> (calls[s] = Idle /\ ~isLoading /\ progressStatus = NoProgress)

\* the fetch or a read of the second call threw: the call has returned from
\* its catch block, the display shows the failure text in the AI turn, and
\* isLoading and progressStatus are reset
ThrownAndIdle ==
    /\ nreq = 2 /\ nfault = 1
    /\ InFlight = {}
    /\ ~isLoading /\ progressStatus = NoProgress
    /\ Len(messages) = 2
    /\ messages[2] = ChatMessage(aiMessageId(2), "ai", FailureText, FALSE)

\* a step of selectCheckpoint: a timeline gesture that changes the selection
Selects == nnav' # nnav /\ selectedCheckpoint' # selectedCheckpoint

\* the display shows the recorded messages of cp, one for one and in order
ShowsRecorded(msgs, cp) ==
    /\ Len(msgs) = Len(cp.messages)
    /\ \A i \in 1..Len(msgs) :
          /\ msgs[i].role = (IF cp.messages[i].role = "human" THEN "human" ELSE "ai")
          /\ msgs[i].content = cp.messages[i].content
          /\ msgs[i].id = Id("checkpoint", cp.checkpoint_id, i - 1)

\* a step in which a loadMessages call ends by replacing the display
LoadReplaces(i) ==
    /\ i \in 1..Len(loads)
    /\ loads[i].served
    /\ loads' = Remove(loads, i)
    /\ messages' = FromRows(loads[i].rows)

\* C24: selectCheckpoint(c) with c non-null sets selectedCheckpoint to c and
\* replaces the whole display with c's recorded messages in order (role
\* "human" as human, every other role as ai); selectCheckpoint(null) clears
\* the selection and starts a loadMessages of the current thread, whose
\* fetch reads that thread's Message table and whose answer replaces the
\* display.
SelectShowsOrReloads ==
    [][/\ Selects =>
            IF selectedCheckpoint' # NoCheckpoint
            THEN /\ \E i \in 1..Len(checkpoints) : selectedCheckpoint' = checkpoints[i]
                 /\ ShowsRecorded(messages', selectedCheckpoint')
                 /\ loads' = loads
            ELSE /\ currentThreadId # NULL
                 /\ loads' = Append(loads, NewLoad(currentThreadId))
                 /\ messages' = messages
       /\ \A i \in 1..Len(loads) :
            (Len(loads') = Len(loads) /\ ~loads[i].served /\ loads'[i].served) =>
                loads'[i].rows = msgTable[loads[i].thread]
       /\ (Len(loads') < Len(loads) /\ messages' # messages) =>
            \E i \in 1..Len(loads) : LoadReplaces(i)]_vars

\* after two turns a checkpoint was previewed and then deselected, with no
\* request in between, and the reload has replaced the preview with the
\* four rows of the Message table
DeselectReloaded ==
    /\ selectedCheckpoint = NoCheckpoint
    /\ nnav = beforePreview.nnav + 2
    /\ nreq = beforePreview.nreq
    /\ beforePreview.quiet
    /\ Len(beforePreview.shown) = 4
    /\ Quiet
    /\ Len(messages) = 4
    /\ messages = FromRows(msgTable[currentThreadId])

\* the edit in slot s issues a request in this step: the truncate when it is
\* called, the fork or the send when it leaves its awaits
EditIssues(s) ==
    /\ calls'[s].kind = "edit"
    /\ calls'[s].pc \in {"truncate", "request"}
    /\ calls'[s].pc # calls[s].pc

\* C25: an edit is started from a bubble only for a human message, with no
\* request in flight and no checkpoint selected; while a checkpoint is
\* previewed no edit issues a truncate, a fork or a send.
NoEditInPreview ==
    [][\A s \in Slots :
          /\ (EditIssues(s) /\ calls'[s].pc = "truncate") =>
                /\ messages[calls'[s].index + 1].role = "human"
                /\ InFlight = {}
                /\ selectedCheckpoint = NoCheckpoint
          /\ EditIssues(s) => selectedCheckpoint' = NoCheckpoint]_vars

\* the server gained exactly one thread, t
OneNewThread(t) == t \notin srvThreads /\ srvThreads' = srvThreads \cup {t}

\* the send in slot s was called with no thread open and awaits createThread
Creating(s) == calls[s].kind = "send" /\ calls[s].pc = "createThread"

\* C26: a sendMessage called with no active thread creates exactly one
\* thread, which becomes current, and its chat request is sent on that
\* thread (the human message is logged there); if createThread fails the
\* call returns and the display, isLoading, the threads and the Message
\* table are as before, and no chat request is issued.
AutoCreateOnce ==
    [][\A s \in Slots :
          /\ (calls[s].pc = "idle" /\ calls'[s].kind = "send" /\ currentThreadId = NULL) =>
                /\ Creating(s)'
                /\ srvThreads' = srvThreads
                /\ messages' = messages /\ isLoading' = isLoading
          /\ (Creating(s) /\ calls'[s] # calls[s]) =>
                \/ /\ calls'[s].pc = "request"
                   /\ OneNewThread(calls'[s].thread)
                   /\ currentThreadId' = calls'[s].thread
                   /\ isLoading'
                \/ /\ calls'[s] = Idle
                   /\ srvThreads' = srvThreads /\ threads' = threads
                   /\ currentThreadId' = currentThreadId
                   /\ messages' = messages /\ isLoading' = isLoading
                   /\ msgTable' = msgTable
                   /\ \A r \in Slots : calls'[r].pc = "request" => calls[r].pc = "request"
          /\ (calls[s].kind = "send" /\ calls[s].pc \notin {"idle", "createThread"}
                /\ calls'[s] # calls[s]) =>
                /\ srvThreads' = srvThreads
                /\ calls'[s] = Idle \/ calls'[s].thread = calls[s].thread
                /\ Accepts(s) =>
                      /\ OneNewRow(calls[s].thread, "human")
                      /\ Last(msgTable'[calls[s].thread]).content = <<calls[s].content>>]_vars

\* one send failed to create its thread and left nothing; the other send
\* created thread 1 and its request was accepted there
CreatedAfterFailure ==
    /\ nreq = 2 /\ nfault = 1 /\ threadSeq = 1
    /\ currentThreadId = 1
    /\ isLoading
    /\ \E s \in Slots, c \in Contents :
          /\ calls[s].n = 2 /\ calls[s].pc = "stream" /\ calls[s].thread = 1
          /\ calls[s].content = c
          /\ messages = AddOptimistic(<<>>, 2, <<c>>)
          /\ Pairs(msgTable[1]) = <<Pair("human", <<c>>)>>

\* the texts of the error event a generator yields without reading
OpenFailures == {"Failed to send message: 500", "Failed to fork: 500", "No response body"}

\* the generator returns on the answer to its fetch: one error event is
\* yielded, and nothing of the response is read
ReturnsUnread ==
    /\ Len(sse'.out) = 1
    /\ sse'.out[1].type = "error"
    /\ sse'.out[1].content \in OpenFailures
    /\ sse'.wire = sse.wire /\ sse'.buffer = <<>>

\* the request of the call in slot s is answered with a status that is not OK
NotOk(s) ==
    /\ Mine(calls[s])
    /\ calls[s].pc = "request"
    /\ ~ValidRequest(calls[s])
    /\ calls'[s] # calls[s]

\* what the display shows for a request that was not OK
NotOkText(c) ==
    <<"Error: ", IF c.fork THEN "Failed to fork: " ELSE "Failed to send message: ", "404">>

HasAllowedExtension(file) ==
    Len(file.name) >= 2 /\ toLowerCase(Last(file.name)) \in {"pdf", "pptx"}

Disallowed(file) == ~HasAllowedExtension(file) \/ file.size > MAX_FILE_SIZE

\* C28: a selected file whose extension is not .pdf or .pptx, or whose size
\* exceeds 500 MB, has status error as long as it is selected, is in no
\* batch handed to the upload API, is never ready, and is in the
\* attachments of no sent message.
DisallowedFileRejected ==
    /\ \A i \in 1..Len(selectedFiles) :
          Disallowed(selectedFiles[i].file) => selectedFiles[i].status = "error"
    /\ \A u \in 1..Len(uploads) : \A i \in 1..Len(uploads[u].files) :
          ~Disallowed(uploads[u].files[i])
    /\ \A s \in Slots : \A i \in 1..Len(calls[s].attachments) :
          ~Disallowed(File(calls[s].attachments[i].filename, calls[s].attachments[i].size))

\* the only call made so far is a send that created its thread, and its
\* terminal event has not been processed
AutoCreatedStreaming(s) ==
    /\ nreq = 1 /\ nfault = 0
    /\ calls[s].kind = "send"
    /\ calls[s].pc \in {"request", "stream", "committed"}
    /\ calls[s].thread = 1 /\ threadSeq = 1

\* C29: during a sendMessage that creates its thread, with no other user
\* action, the optimistic human message and the AI placeholder stay in the
\* display until the terminal event is processed, and the placeholder holds
\* every token received.
OptimisticSurvivesLoad ==
    \A s \in Slots :
        AutoCreatedStreaming(s) =>
            /\ \E i \in 1..Len(messages) :
                  messages[i] = userMessage(calls[s].n, <<calls[s].content>>)
            /\ HasPlaceholder(messages, calls[s].n)
            /\ Placeholder(messages, calls[s].n).content = calls[s].reply

\* C30: the checkpoint list and the selected checkpoint held by the client
\* belong to the current thread, and every fork request of the controller
\* names a checkpoint of the thread it is sent for, also after selectThread,
\* createNewThread and deleteThread.
CheckpointsOfCurrentThread ==
    /\ \A i \in 1..Len(checkpoints) : checkpoints[i].thread_id = currentThreadId
    /\ selectedCheckpoint # NoCheckpoint => selectedCheckpoint.thread_id = currentThreadId
    /\ \A s \in Slots :
          (Mine(calls[s]) /\ calls[s].fork /\ calls[s].pc = "request") =>
              \E i \in 1..Len(checkpoints) :
                  /\ checkpoints[i].checkpoint_id = calls[s].checkpointId
                  /\ checkpoints[i].thread_id = calls[s].thread

\* C31: whenever isLoading is false, no display message has its streaming
\* flag set, also when the event stream of a send, fork or edit ends without
\* a done or error event.
NoStreamingWhenIdle ==
    ~isLoading => \A i \in 1..Len(messages) : ~messages[i].isStreaming

\* the fetch of load i has answered and loadMessages sets the display
LoadAnswers(i) == loads[i].served /\ loads' = Remove(loads, i)

\* C32: in live mode the response of a loadMessages issued for a thread that
\* is no longer current never overwrites the display, whatever order the
\* responses arrive in, so that once all pending loads have completed the
\* display shows the messages of currentThreadId.
StaleLoadIgnored ==
    [][\A i \in 1..Len(loads) :
          (LoadAnswers(i) /\ selectedCheckpoint = NoCheckpoint
                          /\ loads[i].thread # currentThreadId) =>
              messages' = messages]_vars

\* the done event of the fork in slot s is processed in this step
ForkDone(s) ==
    /\ calls[s].kind = "fork"
    /\ calls[s].pc = "committed"
    /\ calls'[s].pc = "loadHistory"

\* the content of the branch the fork of call c creates: the recorded
\* messages of its checkpoint, the new human message, the reply
Branch(c) ==
    Recorded(get(cpLog, c.checkpointId))
        \o <<Pair("human", <<c.content>>), Pair("ai", c.reply)>>

\* C33: after a fork from checkpoint C completes with done, the display is
\* C's recorded messages followed by the new human message and the AI reply
\* (the content of the new branch), whether or not C was being previewed when
\* the fork was started from the timeline.
ForkShowsBranch ==
    [][\A s \in Slots : ForkDone(s) => Shown(messages') = Branch(calls[s])]_vars

WellFormed(frames) ==
    \A i \in 1..Len(frames) : ~frames[i].joined /\ frames[i].ev.type # "text"

\* what the generator yields when the whole response arrives in one chunk
OneChunk(frames) ==
    LET parts == Split(Encode(frames), 2)
        events == Flatten(Map(Front(parts), MessageEvents))
        remaining == Trim(Last(parts))
    IN  IF HasTerminal(events) THEN Yielded(events)
        ELSE events \o (IF remaining # <<>> /\ remaining[1] = DataPrefix
                        THEN Parse(Tail(remaining)) ELSE <<>>)

\* the generator returns in this step, at a terminal event or at the end of
\* a response that was read to its end
Returns ==
    /\ sse.pc = "read"
    /\ sse'.pc = "returned"
    /\ sse.wire = <<>> \/ HasTerminal(sse'.out)

\* C35: for a well-formed event stream the sequence of events yielded by
\* streamChat and streamFork does not depend on how the bytes are split into
\* read chunks: a frame delimiter or a data line split across two chunks is
\* reassembled and yields the same events, in the same order, as when the
\* stream arrives in one chunk.
ChunkingIrrelevant ==
    [][(Returns /\ WellFormed(sse.frames)) =>
           /\ sse'.out = OneChunk(sse.frames)
           /\ OneChunk(sse.frames) = Yielded(Sent(sse.frames))]_vars

\* a chunk has ended inside a frame delimiter (or inside a data line) after
\* an event of an earlier frame was yielded
DelimiterSplit ==
    /\ sse.pc = "read"
    /\ WellFormed(sse.frames)
    /\ Len(sse.out) >= 1
    /\ sse.wire # <<>>
    /\ \/ sse.buffer = <<DataPrefix, Json(sse.frames[2].ev), NL>> /\ sse.wire[1] = NL
       \/ sse.buffer = <<DataPrefix>> /\ sse.wire[1] = Json(sse.frames[2].ev)

\* the filenames of the selected files with status processing
Processing ==
    {selectedFiles[i].file.name :
        i \in {j \in 1..Len(selectedFiles) : selectedFiles[j].status = "processing"}}

\* no uploadFilesAuto call is pending, its timer included
BatchesSettled ==
    \A u \in 1..Len(uploads) : uploads[u].pc \notin {"createThread", "upload", "timer"}

\* C36: once an upload batch has settled, the set of filenames being polled
\* for processing status equals the set of selected files with status
\* processing: every processing file is polled until it becomes ready, and a
\* file's polling stops when it becomes ready, is removed, or the thread
\* changes.
PolledAreProcessing == BatchesSettled => pollingIntervals = Processing

\* the file is in the selected-files list with one of the statuses
Listed(file, statuses) ==
    \E i \in 1..Len(selectedFiles) :
        selectedFiles[i].file = file /\ selectedFiles[i].status \in statuses

\* C37: a valid file selected while no thread exists is still in the
\* selected-files list after the thread has been auto-created and the upload
\* has finished, on its way to status ready or error, so that it can be
\* attached to the next message.
AutoCreatedUploadListed ==
    \A u \in 1..Len(uploads) :
        (uploads[u].created /\ uploads[u].pc = "timer") =>
            \A k \in 1..Len(uploads[u].files) :
                Listed(uploads[u].files[k], {"processing", "ready"})

\* a message is sent in this step by the call that takes slot s
Sends(s) == calls[s].pc = "idle" /\ calls'[s].pc # "idle"

\* the selected files with status ready, as attachments
ReadyAttachments ==
    Map(SelectSeq(selectedFiles, LAMBDA f : f.status = "ready"), MessageAttachment)

\* C38: InputArea never sends a message while any selected file has status
\* pending, uploading or processing; the attachments of a sent message are
\* exactly the selected files with status ready at that moment, and after
\* the send those ready files are removed from the selection while files in
\* other statuses stay.
SendsOnlyReadyFiles ==
    [][\A s \in Slots :
          Sends(s) =>
              /\ \A i \in 1..Len(selectedFiles) :
                    selectedFiles[i].status \notin {"pending", "uploading", "processing"}
              /\ calls'[s].attachments = ReadyAttachments
              /\ selectedFiles' = SelectSeq(selectedFiles, LAMBDA f : f.status # "ready")]_vars

\* a message was sent with one ready file attached, and a file with an error
\* stayed in the selection
SentWithAttachment ==
    \E s \in Slots :
        /\ calls[s].pc = "request"
        /\ Len(calls[s].attachments) = 1
        /\ calls[s].attachments[1].s3_key # NoKey
        /\ Len(selectedFiles) = 1
        /\ selectedFiles[1].status = "error"

====
